---- MODULE Spec2Model ----
(***************************************************************************)
(* theopfr/compiler: Lexer (src/src/lexer.rs), Parser (src/src/parser.rs)  *)
(* and SemanticAnalyser (src/src/semantic.rs) as a state machine: Spec is  *)
(* the pipeline from a program text, SpecSem the analyser on a tree handed *)
(* to it directly.  A character is a one-character                         *)
(* string, a program text a sequence of characters; the sentinel '\0' is   *)
(* the value NUL.  Lexer.chars is stored reversed in the code and popped   *)
(* from the end; here it is kept in reading order and read from the head.  *)
(* Binding powers are the code's f32 values times ten.                     *)
(***************************************************************************)
EXTENDS Integers, Sequences, FiniteSets, TLC

VARIABLES src, input, chars, cur_line, cur_col, tokens, ptokens, tree, err, pc,
          ast, symbol_table, next_stmt, prior

vars == <<src, input, chars, cur_line, cur_col, tokens, ptokens, tree, err, pc,
          ast, symbol_table, next_stmt, prior>>

\* The fields of SemanticAnalyser, the position of the loop of check, and what
\* the caller holds of an earlier call of check.
sem == <<ast, symbol_table, next_stmt, prior>>

(***************************************************************************)
(* Bounds of the model.                                                    *)
(***************************************************************************)
MaxLen == 3

MaxPrefix == 2

(***************************************************************************)
(* Characters and their classes (char::is_whitespace, is_alphabetic,       *)
(* is_numeric).                                                            *)
(***************************************************************************)
NUL == "NUL"

\* The whitespace without the tab.
Whitespace_notab == {" ", "\n"}

Whitespace == {" ", "\n", "\t"}

Alphabetic == {"a", "b", "c", "d", "e", "f", "g", "h", "i", "j", "k", "l", "m",
               "n", "o", "p", "q", "r", "s", "t", "u", "v", "w", "x", "y", "z"}

Numeric == {"0", "1", "2", "3", "4", "5", "6", "7", "8", "9"}

Alphanumeric == Alphabetic \cup Numeric

BooleanChars == {"<", ">", "=", "&", "!", "|"}

SingleChars == {"+", "-", "*", "/", "(", ")", ";"}

Span(l, c) == [line |-> l, col |-> c]

NoErr == [kind |-> "None", message |-> "", arg |-> "", span |-> Span(0, 0)]

SyntaxError(m, a, sp) == [kind |-> "SyntaxError", message |-> m, arg |-> a, span |-> sp]

Token(k, s, v, sp) == [kind |-> k, sub |-> s, val |-> v, span |-> sp]

(***************************************************************************)
(* Lexer: the cursor is the record [chars, line, col].                     *)
(***************************************************************************)
Cursor(cs, l, c) == [chars |-> cs, line |-> l, col |-> c]

peek_next(cs) == IF cs = <<>> THEN NUL ELSE Head(cs)

\* consume_next without the newline case.
consume_next_nocr(cu) ==
    [chars |-> IF cu.chars = <<>> THEN <<>> ELSE Tail(cu.chars),
     line  |-> cu.line,
     col   |-> cu.col + 1]

consume_next(cu) ==
    IF peek_next(cu.chars) = "\n"
    THEN [chars |-> Tail(cu.chars), line |-> cu.line + 1, col |-> 1]
    ELSE [chars |-> IF cu.chars = <<>> THEN <<>> ELSE Tail(cu.chars),
          line  |-> cu.line,
          col   |-> cu.col + 1]

\* The loop of handle_alphanumeric / handle_numeric: consume while the next
\* character is in `set`; the result is the cursor after the run and the lexeme.
RECURSIVE scan_run(_, _, _)
scan_run(cu, set, acc) ==
    IF peek_next(cu.chars) \in set
    THEN scan_run(consume_next(cu), set, Append(acc, peek_next(cu.chars)))
    ELSE [cu |-> cu, lexeme |-> acc]

keyword_token(lexeme, sp) ==
    CASE lexeme = <<"i", "n", "t">>                -> Token("Declare", "Int", <<>>, sp)
      [] lexeme = <<"f", "l", "o", "a", "t">>      -> Token("Declare", "Float", <<>>, sp)
      [] lexeme = <<"b", "o", "o", "l">>           -> Token("Declare", "Bool", <<>>, sp)
      [] lexeme = <<"p", "r", "i", "n", "t">>      -> Token("Print", "", <<>>, sp)
      [] lexeme = <<"t", "r", "u", "e">>           -> Token("Literal", "Bool", lexeme, sp)
      [] lexeme = <<"f", "a", "l", "s", "e">>      -> Token("Literal", "Bool", lexeme, sp)
      [] OTHER                                     -> Token("Identifier", "", lexeme, sp)

handle_alphanumeric(cu) ==
    LET r == scan_run(cu, Alphanumeric \cup {"_"}, <<>>)
    IN  [cu |-> r.cu, toks |-> <<keyword_token(r.lexeme, Span(cu.line, cu.col))>>,
         err |-> NoErr]

Contains(s, ch) == \E i \in 1..Len(s) : s[i] = ch

handle_numeric(cu) ==
    LET r == scan_run(cu, Numeric \cup {"."}, <<>>)
    IN  [cu |-> r.cu,
         toks |-> <<Token("Literal",
                          IF Contains(r.lexeme, ".") THEN "Float" ELSE "Int",
                          r.lexeme, Span(cu.line, cu.col))>>,
         err |-> NoErr]

lone_message(first) ==
    IF first = "&"
    THEN "Unexpected single character '&', did you mean '&&'?"
    ELSE "Unexpected single character '|', did you mean '||'?"

\* boolean_arm consuming the lookahead character in every case.
boolean_arm_greedy(cu, first, second, two, one) ==
    LET sp  == Span(cu.line, cu.col)
        cu1 == consume_next(cu)
    IN  IF peek_next(cu1.chars) = second
        THEN [cu |-> consume_next(cu1), toks |-> <<Token("BinOp", two, <<>>, sp)>>,
              err |-> NoErr]
        ELSE IF one # ""
        THEN [cu |-> consume_next(cu1), toks |-> <<Token("BinOp", one, <<>>, sp)>>,
              err |-> NoErr]
        ELSE [cu |-> cu1, toks |-> <<>>,
              err |-> SyntaxError(lone_message(first), first, sp)]

\* One arm of handle_boolean: `second` completes the two-character operator
\* `two`; otherwise the one-character operator `one`, or an error when one = "".
boolean_arm(cu, first, second, two, one) ==
    LET sp  == Span(cu.line, cu.col)
        cu1 == consume_next(cu)
    IN  IF peek_next(cu1.chars) = second
        THEN [cu |-> consume_next(cu1), toks |-> <<Token("BinOp", two, <<>>, sp)>>,
              err |-> NoErr]
        ELSE IF one # ""
        THEN [cu |-> cu1, toks |-> <<Token("BinOp", one, <<>>, sp)>>, err |-> NoErr]
        ELSE [cu |-> cu1, toks |-> <<>>,
              err |-> SyntaxError(lone_message(first), first, sp)]

handle_boolean(cu) ==
    LET ch == peek_next(cu.chars)
    IN  CASE ch = "=" -> boolean_arm(cu, ch, "=", "Eq", "Assign")
          [] ch = "<" -> boolean_arm(cu, ch, "=", "Le", "Lt")
          [] ch = ">" -> boolean_arm(cu, ch, "=", "Ge", "Gt")
          [] ch = "&" -> boolean_arm(cu, ch, "&", "And", "")
          [] ch = "|" -> boolean_arm(cu, ch, "|", "Or", "")
          [] ch = "!" -> boolean_arm(cu, ch, "=", "Ne", "Not")
          [] OTHER    -> [cu |-> consume_next(cu), toks |-> <<>>,
                          err |-> SyntaxError("Unexpected character '{}'.", ch,
                                              Span(cu.line, cu.col))]

single_token(ch, sp) ==
    CASE ch = "+" -> Token("BinOp", "Add", <<>>, sp)
      [] ch = "-" -> Token("BinOp", "Sub", <<>>, sp)
      [] ch = "*" -> Token("BinOp", "Mult", <<>>, sp)
      [] ch = "/" -> Token("BinOp", "Div", <<>>, sp)
      [] ch = "(" -> Token("LParen", "", <<>>, sp)
      [] ch = ")" -> Token("RParen", "", <<>>, sp)
      [] ch = ";" -> Token("EOS", "", <<>>, sp)

\* The last arm of the match of tokenize: the character is reported, not consumed.
unexpected_char_skipped(cu) == [cu |-> consume_next(cu), toks |-> <<>>, err |-> NoErr]

\* A last arm that leaves the character and reports nothing.
unexpected_char_ignored(cu) == [cu |-> cu, toks |-> <<>>, err |-> NoErr]

unexpected_char(cu) ==
    [cu |-> cu, toks |-> <<>>,
     err |-> SyntaxError("Unexpected character '{}'.", peek_next(cu.chars), Span(cu.line, cu.col))]

eof_tokens_dropped(sp) == <<>>

eof_tokens(sp) == <<Token("EOF", "", <<>>, sp)>>

cur == Cursor(chars, cur_line, cur_col)

SetCursor(cu) ==
    /\ chars' = cu.chars
    /\ cur_line' = cu.line
    /\ cur_col' = cu.col

\* One iteration of the loop of tokenize, by the arm of its match.
LexWhitespace ==
    /\ pc = "tokenize"
    /\ peek_next(chars) \in Whitespace
    /\ SetCursor(consume_next(cur))
    /\ UNCHANGED <<src, input, tokens, ptokens, tree, err, pc>>
    /\ UNCHANGED sem

LexAlphanumeric ==
    /\ pc = "tokenize"
    /\ peek_next(chars) \in Alphabetic
    /\ LET r == handle_alphanumeric(cur)
       IN  /\ SetCursor(r.cu)
           /\ tokens' = tokens \o r.toks
    /\ UNCHANGED <<src, input, ptokens, tree, err, pc>>
    /\ UNCHANGED sem

LexNumeric ==
    /\ pc = "tokenize"
    /\ peek_next(chars) \in Numeric \cup {"."}
    /\ LET r == handle_numeric(cur)
       IN  /\ SetCursor(r.cu)
           /\ tokens' = tokens \o r.toks
    /\ UNCHANGED <<src, input, ptokens, tree, err, pc>>
    /\ UNCHANGED sem

LexBoolean ==
    /\ pc = "tokenize"
    /\ peek_next(chars) \in BooleanChars
    /\ LET r == handle_boolean(cur)
       IN  /\ SetCursor(r.cu)
           /\ tokens' = tokens \o r.toks
           /\ err' = r.err
           /\ pc' = IF r.err.kind = "None" THEN "tokenize" ELSE "lex_err"
    /\ UNCHANGED <<src, input, ptokens, tree>>
    /\ UNCHANGED sem

LexSingle ==
    /\ pc = "tokenize"
    /\ peek_next(chars) \in SingleChars
    /\ tokens' = Append(tokens, single_token(peek_next(chars), Span(cur_line, cur_col)))
    /\ SetCursor(consume_next(cur))
    /\ UNCHANGED <<src, input, ptokens, tree, err, pc>>
    /\ UNCHANGED sem

LexEOF ==
    /\ pc = "tokenize"
    /\ peek_next(chars) = NUL
    /\ tokens' = tokens \o eof_tokens(Span(cur_line, cur_col))
    /\ SetCursor(consume_next(cur))
    /\ pc' = "tokenized"
    /\ UNCHANGED <<src, input, ptokens, tree, err>>
    /\ UNCHANGED sem

LexUnexpected ==
    /\ pc = "tokenize"
    /\ peek_next(chars) \notin
         Whitespace \cup Alphabetic \cup Numeric \cup {"."} \cup BooleanChars
           \cup SingleChars \cup {NUL}
    /\ LET r == unexpected_char(cur)
       IN  /\ SetCursor(r.cu)
           /\ err' = r.err
           /\ pc' = IF r.err.kind = "None" THEN "tokenize" ELSE "lex_err"
    /\ UNCHANGED <<src, input, tokens, ptokens, tree>>
    /\ UNCHANGED sem

(***************************************************************************)
(* Parser.  Parser.tokens is stored reversed in the code; here it is kept  *)
(* in reading order.  A result is [ok, val, err, rest]: the value or the   *)
(* error, and the tokens left in the parser.                               *)
(***************************************************************************)
INFINITY == 1000

EofToken == Token("EOF", "", <<>>, Span(0, 0))

\* A peek that reads an exhausted token list as a statement end.
ppeek_next_eos(toks) ==
    IF toks = <<>> THEN Token("EOS", "", <<>>, Span(0, 0)) ELSE Head(toks)

ppeek_next(toks) == IF toks = <<>> THEN EofToken ELSE Head(toks)

pconsume_next(toks) == IF toks = <<>> THEN <<>> ELSE Tail(toks)

Ok(v, rest) == [ok |-> TRUE, val |-> v, err |-> NoErr, rest |-> rest]

Fail(e, rest) == [ok |-> FALSE, val |-> <<>>, err |-> e, rest |-> rest]

LiteralExpr(value, primitive, sp) ==
    [node |-> "Literal", value |-> value, primitive |-> primitive, span |-> sp]

IdentifierExpr(name, sp) == [node |-> "Identifier", name |-> name, span |-> sp]

BinOpExpr(op, left, right, sp) ==
    [node |-> "BinOp", op |-> op, left |-> left, right |-> right, span |-> sp]

UnaryOpExpr(op, e, sp) == [node |-> "UnaryOp", op |-> op, expr |-> e, span |-> sp]

DeclareStmt(dtype, name, e, sp) ==
    [node |-> "Declare", dtype |-> dtype, name |-> name, expr |-> e, span |-> sp]

PrintStmt(e, sp) == [node |-> "Print", expr |-> e, span |-> sp]

BindingPower(l, r) == [ok |-> TRUE, lbp |-> l, rbp |-> r]

airthmetic_binding_power_flat(op) ==
    CASE op \in {"Mult", "Div", "Add", "Sub"} -> BindingPower(51, 52)
      [] op \in {"Gt", "Lt", "Ge", "Le", "Eq", "Ne"} -> BindingPower(31, 32)
      [] op \in {"And", "Or"}                 -> BindingPower(11, 12)
      [] OTHER                                -> [ok |-> FALSE, lbp |-> 0, rbp |-> 0]

airthmetic_binding_power_rassoc(op) ==
    CASE op \in {"Mult", "Div"}             -> BindingPower(62, 61)
      [] op \in {"Add", "Sub"}              -> BindingPower(52, 51)
      [] op \in {"Gt", "Lt", "Ge", "Le"}    -> BindingPower(42, 41)
      [] op \in {"Eq", "Ne"}                -> BindingPower(32, 31)
      [] op = "And"                         -> BindingPower(22, 21)
      [] op = "Or"                          -> BindingPower(12, 11)
      [] OTHER                              -> [ok |-> FALSE, lbp |-> 0, rbp |-> 0]

airthmetic_binding_power(op) ==
    CASE op \in {"Mult", "Div"}             -> BindingPower(61, 62)
      [] op \in {"Add", "Sub"}              -> BindingPower(51, 52)
      [] op \in {"Gt", "Lt", "Ge", "Le"}    -> BindingPower(41, 42)
      [] op \in {"Eq", "Ne"}                -> BindingPower(31, 32)
      [] op = "And"                         -> BindingPower(21, 22)
      [] op = "Or"                          -> BindingPower(11, 12)
      [] OTHER                              -> [ok |-> FALSE, lbp |-> 0, rbp |-> 0]

\* The minimum binding power the operand of a prefix operator is parsed at.
unary_binding_power_inherited(min_binding_pow) == min_binding_pow

unary_binding_power(min_binding_pow) == INFINITY

\* The minimum binding power a parenthesised sub-expression is parsed at.
paren_binding_power_inherited(min_binding_pow) == min_binding_pow

paren_binding_power(min_binding_pow) == 0

\* The error of an unexpected token with the default span.
UnexpectedToken_default(t) == SyntaxError("Unexpected token {:?}.", t.kind, Span(0, 0))

UnexpectedToken(t) == SyntaxError("Unexpected token {:?}.", t.kind, t.span)

RECURSIVE parse_expression(_, _), parse_infix(_, _, _)
parse_expression(toks, min_binding_pow) ==
    LET cur_token == ppeek_next(toks)
        rest      == pconsume_next(toks)
    IN  CASE cur_token.kind = "Literal" ->
               parse_infix(LiteralExpr(cur_token.val, cur_token.sub, cur_token.span),
                           rest, min_binding_pow)
          [] cur_token.kind = "Identifier" ->
               parse_infix(IdentifierExpr(cur_token.val, cur_token.span),
                           rest, min_binding_pow)
          [] cur_token.kind = "BinOp" /\ cur_token.sub = "Sub" ->
               LET r == parse_expression(rest, unary_binding_power(min_binding_pow))
               IN  IF r.ok
                   THEN parse_infix(UnaryOpExpr("Neg", r.val, cur_token.span),
                                    r.rest, min_binding_pow)
                   ELSE r
          [] cur_token.kind = "BinOp" /\ cur_token.sub = "Add" ->
               LET r == parse_expression(rest, unary_binding_power(min_binding_pow))
               IN  IF r.ok THEN parse_infix(r.val, r.rest, min_binding_pow) ELSE r
          [] cur_token.kind = "BinOp" /\ cur_token.sub = "Not" ->
               LET r == parse_expression(rest, unary_binding_power(min_binding_pow))
               IN  IF r.ok
                   THEN parse_infix(UnaryOpExpr("Not", r.val, cur_token.span),
                                    r.rest, min_binding_pow)
                   ELSE r
          [] cur_token.kind = "LParen" ->
               LET r == parse_expression(rest, paren_binding_power(min_binding_pow))
               IN  IF ~r.ok THEN r
                   ELSE IF ppeek_next(r.rest).kind # "RParen"
                   THEN Fail(SyntaxError("Expected closing ')'.", "",
                                         ppeek_next(r.rest).span), r.rest)
                   ELSE parse_infix(r.val, pconsume_next(r.rest), min_binding_pow)
          [] OTHER -> Fail(UnexpectedToken(cur_token), rest)

\* The loop of parse_expression, with `lhs` parsed so far.
parse_infix(lhs, toks, min_binding_pow) ==
    LET next_op_token == ppeek_next(toks)
    IN  CASE next_op_token.kind = "BinOp" ->
               LET bp == airthmetic_binding_power(next_op_token.sub)
               IN  IF ~bp.ok
                   THEN Fail(SyntaxError("Unexpected token {:?}.", next_op_token.sub,
                                         next_op_token.span), toks)
                   ELSE IF bp.lbp < min_binding_pow THEN Ok(lhs, toks)
                   ELSE LET r == parse_expression(pconsume_next(toks), bp.rbp)
                        IN  IF r.ok
                            THEN parse_infix(BinOpExpr(next_op_token.sub, lhs, r.val,
                                                       next_op_token.span),
                                             r.rest, min_binding_pow)
                            ELSE r
          [] next_op_token.kind \in {"RParen", "EOS", "EOF"} -> Ok(lhs, toks)
          [] OTHER -> Fail(UnexpectedToken(next_op_token), toks)

parse_statement(toks) ==
    LET cur_token == ppeek_next(toks)
        rest      == pconsume_next(toks)
    IN  CASE cur_token.kind = "Declare" ->
               LET name_token == ppeek_next(rest)
                   rest2      == pconsume_next(rest)
                   next_token == ppeek_next(rest2)
               IN  IF name_token.kind # "Identifier"
                   THEN Fail(UnexpectedToken(name_token), rest)
                   ELSE IF ~(next_token.kind = "BinOp" /\ next_token.sub = "Assign")
                   THEN Fail(SyntaxError("Expected '=' after declaration.", "",
                                         next_token.span), rest2)
                   ELSE LET r == parse_expression(pconsume_next(rest2), 0)
                        IN  IF r.ok
                            THEN Ok(DeclareStmt(cur_token.sub, name_token.val, r.val,
                                                cur_token.span), r.rest)
                            ELSE r
          [] cur_token.kind = "Print" ->
               IF ppeek_next(rest).kind # "LParen"
               THEN Fail(SyntaxError("Expected opening '(' after 'print' keyword.", "",
                                     ppeek_next(rest).span), rest)
               ELSE LET r == parse_expression(pconsume_next(rest), 0)
                    IN  IF ~r.ok THEN r
                        ELSE IF ppeek_next(r.rest).kind # "RParen"
                        THEN Fail(SyntaxError("Expected closing ')'.", "",
                                              ppeek_next(r.rest).span), r.rest)
                        ELSE Ok(PrintStmt(r.val, cur_token.span), pconsume_next(r.rest))
          [] OTHER ->
               Fail(SyntaxError("Unexpected token of kind {:?}.", cur_token.kind,
                                cur_token.span), rest)

\* The match of parse on the token after a statement; `first` is the first
\* token of the statement.
statement_end_at_start(first, next_token) ==
    CASE next_token.kind = "EOS"    -> NoErr
      [] next_token.kind = "RParen" -> SyntaxError("Unmatched ')'.", "", first.span)
      [] OTHER -> SyntaxError("Expected ';' at end of expression.", "", first.span)

statement_end(first, next_token) ==
    CASE next_token.kind = "EOS"    -> NoErr
      [] next_token.kind = "RParen" -> SyntaxError("Unmatched ')'.", "", next_token.span)
      [] OTHER -> SyntaxError("Expected ';' at end of expression.", "", next_token.span)

\* Parser::new on the tokens of the lexer.
ParserNew ==
    /\ pc = "tokenized"
    /\ ptokens' = tokens
    /\ tree' = <<>>
    /\ pc' = "parse"
    /\ UNCHANGED <<src, input, chars, cur_line, cur_col, tokens, err>>
    /\ UNCHANGED sem

\* One iteration of the loop of parse.
ParseStatement ==
    /\ pc = "parse"
    /\ ppeek_next(ptokens).kind # "EOF"
    /\ LET r == parse_statement(ptokens)
           e == statement_end(ppeek_next(ptokens), ppeek_next(r.rest))
       IN  IF ~r.ok
           THEN /\ err' = r.err
                /\ ptokens' = r.rest
                /\ pc' = "parse_err"
                /\ tree' = tree
           ELSE IF e.kind # "None"
           THEN /\ err' = e
                /\ ptokens' = r.rest
                /\ pc' = "parse_err"
                /\ tree' = tree
           ELSE /\ err' = err
                /\ ptokens' = pconsume_next(r.rest)
                /\ pc' = "parse"
                /\ tree' = Append(tree, r.val)
    /\ UNCHANGED <<src, input, chars, cur_line, cur_col, tokens>>
    /\ UNCHANGED sem

\* The loop of parse ends at the EOF token.
ParseEnd ==
    /\ pc = "parse"
    /\ ppeek_next(ptokens).kind = "EOF"
    /\ pc' = "parsed"
    /\ UNCHANGED <<src, input, chars, cur_line, cur_col, tokens, ptokens, tree, err>>
    /\ UNCHANGED sem

(***************************************************************************)
(* Semantic analyser (src/src/semantic.rs).  The symbol table is a         *)
(* function from the declared names to their Identifier entries.  The      *)
(* result of a type inference is [ok, val, err]; the result of check_stmt  *)
(* is [ok, err, table], the table being the one the statement leaves.      *)
(***************************************************************************)
Primitives == {"Int", "Float", "Bool"}

BinOpKinds ==
    {"Add", "Sub", "Mult", "Div", "And", "Or", "Not", "Eq", "Ne", "Gt", "Lt", "Ge",
     "Le", "Assign"}

UnaryOpKinds == {"Neg", "Not"}

Identifier(primitive, sp, mutable) ==
    [primitive |-> primitive, span |-> sp, mutable |-> mutable]

StmtDeclare(dtype, mutable, name, e, sp) ==
    [node |-> "Declare", dtype |-> dtype, mutable |-> mutable, name |-> name,
     expr |-> e, span |-> sp]

StmtMutAssign(name, e, sp) ==
    [node |-> "MutAssign", name |-> name, expr |-> e, span |-> sp]

NameError(name, sp) == [kind |-> "NameError", name |-> name, span |-> sp]

TypeDeclarationError(expected, found, sp) ==
    [kind |-> "TypeDeclarationError", expected |-> expected, found |-> found,
     span |-> sp]

TypeBinOpError(op, left, right, sp) ==
    [kind |-> "TypeBinOpError", op |-> op, left |-> left, right |-> right,
     span |-> sp]

TypeUnaryOpError(op, operand, sp) ==
    [kind |-> "TypeUnaryOpError", op |-> op, operand |-> operand, span |-> sp]

MutabilityError(name, sp) == [kind |-> "MutabilityError", name |-> name, span |-> sp]

TypeOk(t) == [ok |-> TRUE, val |-> t, err |-> NoErr]

TypeErr(e) == [ok |-> FALSE, val |-> "", err |-> e]

\* The Assign arm with equal types only.
assign_type_strict(left_type, right_type, span) ==
    IF left_type = right_type
    THEN TypeOk(left_type)
    ELSE TypeErr(TypeDeclarationError(left_type, right_type, span))

\* The Assign arm of infer_binop_type.
assign_type(left_type, right_type, span) ==
    IF left_type = right_type THEN TypeOk(left_type)
    ELSE CASE left_type = "Int" /\ right_type \in {"Int", "Float"}   -> TypeOk("Int")
           [] left_type = "Float" /\ right_type \in {"Int", "Float"} -> TypeOk("Float")
           [] left_type = "Bool" /\ right_type = "Bool"              -> TypeOk("Bool")
           [] OTHER -> TypeErr(TypeDeclarationError(left_type, right_type, span))

\* infer_binop_type without the arm of the mixed Int and Float operands.
infer_binop_type_unmixed(op, left_type, right_type, span) ==
    CASE op \in {"Add", "Sub", "Mult"} /\ left_type = "Int" /\ right_type = "Int" ->
           TypeOk("Int")
      [] op = "Div" /\ left_type = "Int" /\ right_type = "Int" -> TypeOk("Float")
      [] op \in {"Add", "Sub", "Mult", "Div"} /\ left_type = "Float"
           /\ right_type = "Float" -> TypeOk("Float")
      [] op \in {"And", "Or", "Not", "Eq", "Ne"} /\ left_type = "Bool"
           /\ right_type = "Bool" -> TypeOk("Bool")
      [] op \in {"Gt", "Lt", "Ge", "Le", "Eq", "Ne"} /\ left_type \in {"Int", "Float"}
           /\ right_type \in {"Int", "Float"} -> TypeOk("Bool")
      [] op = "Assign" -> assign_type(left_type, right_type, span)
      [] OTHER -> TypeErr(TypeBinOpError(op, left_type, right_type, span))

\* infer_binop_type with the division of two Int giving Int.
infer_binop_type_intdiv(op, left_type, right_type, span) ==
    CASE op \in {"Add", "Sub", "Mult", "Div"} /\ left_type = "Int"
           /\ right_type = "Int" -> TypeOk("Int")
      [] op \in {"Add", "Sub", "Mult", "Div"} /\ left_type \in {"Int", "Float"}
           /\ right_type \in {"Int", "Float"} -> TypeOk("Float")
      [] op \in {"And", "Or", "Not", "Eq", "Ne"} /\ left_type = "Bool"
           /\ right_type = "Bool" -> TypeOk("Bool")
      [] op \in {"Gt", "Lt", "Ge", "Le", "Eq", "Ne"} /\ left_type \in {"Int", "Float"}
           /\ right_type \in {"Int", "Float"} -> TypeOk("Bool")
      [] op = "Assign" -> assign_type(left_type, right_type, span)
      [] OTHER -> TypeErr(TypeBinOpError(op, left_type, right_type, span))

\* The arms of the match are tried in the order of the code.
infer_binop_type(op, left_type, right_type, span) ==
    IF op \in {"Add", "Sub", "Mult"} /\ left_type = "Int" /\ right_type = "Int"
    THEN TypeOk("Int")
    ELSE IF op = "Div" /\ left_type = "Int" /\ right_type = "Int"
    THEN TypeOk("Float")
    ELSE IF op \in {"Add", "Sub", "Mult", "Div"} /\ left_type \in {"Int", "Float"}
              /\ right_type \in {"Int", "Float"}
    THEN TypeOk("Float")
    ELSE IF op \in {"And", "Or", "Not", "Eq", "Ne"} /\ left_type = "Bool"
              /\ right_type = "Bool"
    THEN TypeOk("Bool")
    ELSE IF op \in {"Gt", "Lt", "Ge", "Le", "Eq", "Ne"} /\ left_type \in {"Int", "Float"}
              /\ right_type \in {"Int", "Float"}
    THEN TypeOk("Bool")
    ELSE IF op = "Assign"
    THEN assign_type(left_type, right_type, span)
    ELSE TypeErr(TypeBinOpError(op, left_type, right_type, span))

\* infer_unaryop_type with Neg accepted on every operand.
infer_unaryop_type_anyneg(op, operand_type, span) ==
    CASE op = "Neg" -> TypeOk(operand_type)
      [] op = "Not" /\ operand_type = "Bool" -> TypeOk("Bool")
      [] OTHER -> TypeErr(TypeUnaryOpError(op, operand_type, span))

infer_unaryop_type(op, operand_type, span) ==
    CASE op = "Neg" /\ operand_type \in {"Int", "Float"} -> TypeOk(operand_type)
      [] op = "Not" /\ operand_type = "Bool" -> TypeOk("Bool")
      [] OTHER -> TypeErr(TypeUnaryOpError(op, operand_type, span))

RECURSIVE check_expr(_, _)
check_expr(expr, table) ==
    CASE expr.node = "Literal" -> TypeOk(expr.primitive)
      [] expr.node = "Identifier" ->
           IF expr.name \in DOMAIN table
           THEN TypeOk(table[expr.name].primitive)
           ELSE TypeErr(NameError(expr.name, expr.span))
      [] expr.node = "BinOp" ->
           LET left_type == check_expr(expr.left, table)
           IN  IF ~left_type.ok THEN left_type
               ELSE LET right_type == check_expr(expr.right, table)
                    IN  IF ~right_type.ok THEN right_type
                        ELSE infer_binop_type(expr.op, left_type.val, right_type.val,
                                              expr.span)
      [] expr.node = "UnaryOp" ->
           LET operand == check_expr(expr.expr, table)
           IN  IF ~operand.ok THEN operand
               ELSE infer_unaryop_type(expr.op, operand.val, expr.span)

\* An insert that keeps the entry of an existing name.
insert_keep(table, name, identifier) ==
    [n \in DOMAIN table \cup {name} |-> IF n \in DOMAIN table THEN table[n] ELSE identifier]

\* An insert into a new table.
insert_fresh(table, name, identifier) == [n \in {name} |-> identifier]

\* HashMap::insert: the entry of an existing name is replaced.
insert(table, name, identifier) ==
    [n \in DOMAIN table \cup {name} |-> IF n = name THEN identifier ELSE table[n]]

\* The `mutable` of a declaration; a Declare built by parser.rs carries none
\* (parse_statement reads no 'mut' qualifier) and is not mutable.
mutable_of(stmt) == IF "mutable" \in DOMAIN stmt THEN stmt.mutable ELSE FALSE

StmtResult(ok, e, table) == [ok |-> ok, err |-> e, table |-> table]

\* check_stmt with the expression of a reassignment checked before the
\* mutability of its target.
check_stmt_exprfirst(stmt, table) ==
    CASE stmt.node = "Declare" ->
           LET inserted  == insert(table, stmt.name,
                                   Identifier(stmt.dtype, stmt.span, mutable_of(stmt)))
               expr_type == check_expr(stmt.expr, inserted)
           IN  IF ~expr_type.ok THEN StmtResult(FALSE, expr_type.err, inserted)
               ELSE LET r == infer_binop_type("Assign", stmt.dtype, expr_type.val,
                                              stmt.span)
                    IN  StmtResult(r.ok, r.err, inserted)
      [] stmt.node = "MutAssign" ->
           IF stmt.name \notin DOMAIN table
           THEN StmtResult(FALSE, NameError(stmt.name, stmt.span), table)
           ELSE LET expr_type == check_expr(stmt.expr, table)
                IN  IF ~expr_type.ok THEN StmtResult(FALSE, expr_type.err, table)
                    ELSE IF ~table[stmt.name].mutable
                    THEN StmtResult(FALSE, MutabilityError(stmt.name, stmt.span), table)
                    ELSE LET r == infer_binop_type("Assign", table[stmt.name].primitive,
                                                   expr_type.val, stmt.span)
                         IN  StmtResult(r.ok, r.err, table)
      [] stmt.node = "Print" ->
           LET expr_type == check_expr(stmt.expr, table)
           IN  StmtResult(expr_type.ok, expr_type.err, table)

check_stmt(stmt, table) ==
    CASE stmt.node = "Declare" ->
           LET inserted  == insert(table, stmt.name,
                                   Identifier(stmt.dtype, stmt.span, mutable_of(stmt)))
               expr_type == check_expr(stmt.expr, inserted)
           IN  IF ~expr_type.ok THEN StmtResult(FALSE, expr_type.err, inserted)
               ELSE LET r == infer_binop_type("Assign", stmt.dtype, expr_type.val,
                                              stmt.span)
                    IN  StmtResult(r.ok, r.err, inserted)
      [] stmt.node = "MutAssign" ->
           IF stmt.name \notin DOMAIN table
           THEN StmtResult(FALSE, NameError(stmt.name, stmt.span), table)
           ELSE IF ~table[stmt.name].mutable
           THEN StmtResult(FALSE, MutabilityError(stmt.name, stmt.span), table)
           ELSE LET expr_type == check_expr(stmt.expr, table)
                IN  IF ~expr_type.ok THEN StmtResult(FALSE, expr_type.err, table)
                    ELSE LET r == infer_binop_type("Assign", table[stmt.name].primitive,
                                                   expr_type.val, stmt.span)
                         IN  StmtResult(r.ok, r.err, table)
      [] stmt.node = "Print" ->
           LET expr_type == check_expr(stmt.expr, table)
           IN  StmtResult(expr_type.ok, expr_type.err, table)

\* SemanticAnalyser::new on the tree of the parser.
AnalyserNew ==
    /\ pc = "parsed"
    /\ ast' = tree
    /\ symbol_table' = <<>>
    /\ next_stmt' = 1
    /\ pc' = "check"
    /\ UNCHANGED <<src, input, chars, cur_line, cur_col, tokens, ptokens, tree, err,
                   prior>>

\* A loop of check that records the error of a statement and goes on.
CheckStmt_keepgoing ==
    /\ pc = "check"
    /\ next_stmt <= Len(ast)
    /\ LET r == check_stmt(ast[next_stmt], symbol_table)
       IN  /\ symbol_table' = r.table
           /\ err' = IF r.ok THEN err ELSE r.err
           /\ pc' = "check"
           /\ next_stmt' = next_stmt + 1
    /\ UNCHANGED <<src, input, chars, cur_line, cur_col, tokens, ptokens, tree, ast,
                   prior>>

\* One iteration of the loop of check.
CheckStmt ==
    /\ pc = "check"
    /\ next_stmt <= Len(ast)
    /\ LET r == check_stmt(ast[next_stmt], symbol_table)
       IN  /\ symbol_table' = r.table
           /\ err' = r.err
           /\ pc' = IF r.ok THEN "check" ELSE "check_err"
           /\ next_stmt' = IF r.ok THEN next_stmt + 1 ELSE next_stmt
    /\ UNCHANGED <<src, input, chars, cur_line, cur_col, tokens, ptokens, tree, ast,
                   prior>>

\* The loop of check ends after the last statement.
CheckEnd ==
    /\ pc = "check"
    /\ next_stmt > Len(ast)
    /\ pc' = "checked"
    /\ UNCHANGED <<src, input, chars, cur_line, cur_col, tokens, ptokens, tree, err,
                   ast, symbol_table, next_stmt, prior>>

\* What a caller holds after check has returned: the result, the symbol table
\* of get_symbol_table and the statement the loop stopped at.
NoOutcome == [call |-> "none"]

Outcome(call) ==
    [call |-> call, pc |-> pc, err |-> err, table |-> symbol_table, stmt |-> next_stmt]

\* A second call of check whose loop starts from an emptied statement list.
Recheck_drained ==
    /\ pc \in {"checked", "check_err"}
    /\ prior = NoOutcome
    /\ prior' = Outcome("again")
    /\ ast' = <<>>
    /\ next_stmt' = 1
    /\ err' = NoErr
    /\ pc' = "check"
    /\ UNCHANGED <<src, input, chars, cur_line, cur_col, tokens, ptokens, tree,
                   symbol_table>>

\* check is called a second time on the same analyser: the loop starts again
\* from the first statement, on the symbol table the first call left.
Recheck ==
    /\ pc \in {"checked", "check_err"}
    /\ prior = NoOutcome
    /\ prior' = Outcome("again")
    /\ next_stmt' = 1
    /\ err' = NoErr
    /\ pc' = "check"
    /\ UNCHANGED <<src, input, chars, cur_line, cur_col, tokens, ptokens, tree, ast,
                   symbol_table>>

\* A second analyser whose loop goes on from the position of the first one.
AnalyseAgain_sharedposition ==
    /\ pc \in {"checked", "check_err"}
    /\ prior = NoOutcome
    /\ prior' = Outcome("fresh")
    /\ symbol_table' = <<>>
    /\ next_stmt' = IF pc = "checked" THEN next_stmt ELSE 1
    /\ err' = NoErr
    /\ pc' = "check"
    /\ UNCHANGED <<src, input, chars, cur_line, cur_col, tokens, ptokens, tree, ast>>

\* SemanticAnalyser::new on the same tree again, and check on the new analyser.
AnalyseAgain ==
    /\ pc \in {"checked", "check_err"}
    /\ prior = NoOutcome
    /\ prior' = Outcome("fresh")
    /\ symbol_table' = <<>>
    /\ next_stmt' = 1
    /\ err' = NoErr
    /\ pc' = "check"
    /\ UNCHANGED <<src, input, chars, cur_line, cur_col, tokens, ptokens, tree, ast>>

(***************************************************************************)
(* Program texts handed to Lexer::new.  `input` describes how the text is  *)
(* written: any text of at most MaxLen characters over FreeChars, or a     *)
(* program written as a list of lexemes, separated by single spaces and    *)
(* ended by the sentinel (the callers append "\0").                        *)
(***************************************************************************)
FreeChars == {" ", "\n", "a", "1", ".", "_", "#", NUL, "+", ";", "=", "<", ">", "&", "!", "|"}

FreeTexts == UNION {[1..n -> FreeChars] : n \in 0..MaxLen}

W_int == <<"i", "n", "t">>

W_float == <<"f", "l", "o", "a", "t">>

W_print == <<"p", "r", "i", "n", "t">>

W_true == <<"t", "r", "u", "e">>

InfixOps == {"Mult", "Div", "Add", "Sub", "Gt", "Lt", "Ge", "Le", "Eq", "Ne", "And", "Or"}

OpLexeme(op) ==
    CASE op = "Add"  -> <<"+">>
      [] op = "Sub"  -> <<"-">>
      [] op = "Mult" -> <<"*">>
      [] op = "Div"  -> <<"/">>
      [] op = "Gt"   -> <<">">>
      [] op = "Lt"   -> <<"<">>
      [] op = "Ge"   -> <<">", "=">>
      [] op = "Le"   -> <<"<", "=">>
      [] op = "Eq"   -> <<"=", "=">>
      [] op = "Ne"   -> <<"!", "=">>
      [] op = "And"  -> <<"&", "&">>
      [] op = "Or"   -> <<"|", "|">>

\* The operands of the generated expressions, as lists of lexemes.
OperandLexemes(x) ==
    CASE x = "lit"   -> << <<"1">> >>
      [] x = "id"    -> << <<"b">> >>
      [] x = "flt"   -> << <<"2", ".", "5">> >>
      [] x = "bool"  -> << W_true >>
      [] x = "neg"   -> << <<"-">>, <<"b">> >>
      [] x = "paren" -> << <<"(">>, <<"1">>, <<"+">>, <<"b">>, <<")">> >>

OperandTriples ==
    {<<"lit", "id", "flt">>, <<"id", "neg", "lit">>, <<"paren", "bool", "id">>,
     <<"bool", "lit", "paren">>}

SimpleTriples == {<<"lit", "id", "flt">>, <<"id", "bool", "lit">>}

OperandPairs == {<<"id", "lit">>, <<"lit", "lit">>, <<"id", "paren">>, <<"paren", "flt">>}

PrefixLexeme(p) ==
    CASE p = "Neg"  -> <<"-">>
      [] p = "Not"  -> <<"!">>
      [] p = "Plus" -> <<"+">>

PrefixChains == UNION {[1..n -> {"Neg", "Not", "Plus"}] : n \in 1..MaxPrefix}

\* The statements of the generated programs with a defect.
StatementLexemes(st) ==
    CASE st = "decl"      -> <<W_int, <<"a">>, <<"=">>, <<"0">>, <<";">>>>
      [] st = "print"     -> <<W_print, <<"(">>, <<"a">>, <<")">>, <<";">>>>
      [] st = "nested"    -> <<W_float, <<"b">>, <<"=">>, <<"(">>, <<"(">>, <<"5">>, <<"+">>,
                               <<"4">>, <<")">>, <<"/">>, <<"4">>, <<")">>, <<";">>>>
      [] st = "flat"      -> <<W_float, <<"b">>, <<"=">>, <<"a">>, <<"+">>, <<"4">>, <<"/">>,
                               <<"4">>, <<";">>>>
      [] st = "printexpr" -> <<W_print, <<"(">>, <<"(">>, <<"a">>, <<"+">>, <<"1">>, <<")">>,
                               <<"*">>, <<"2">>, <<")">>, <<";">>>>

Statements == {"decl", "print", "nested", "flat", "printexpr"}

Separators == {"space", "newline"}

\* Two statements; with "newline" the second one starts on a line of its own.
BaseProgram(xs) ==
    StatementLexemes(xs[1])
      \o (IF xs[3] = "newline" THEN << <<"\n">> >> ELSE <<>>)
      \o StatementLexemes(xs[2])

Depth(lexemes, k) ==
    Cardinality({i \in 1..(k - 1) : lexemes[i] = <<"(">>})
      - Cardinality({i \in 1..(k - 1) : lexemes[i] = <<")">>})

RemoveAt(q, k) == SubSeq(q, 1, k - 1) \o SubSeq(q, k + 1, Len(q))

InsertAt(q, k, x) == SubSeq(q, 1, k - 1) \o <<x>> \o SubSeq(q, k, Len(q))

\* The places of a defect: the ';' or ')' left out, or the place where a ')'
\* is put in while no '(' is open.
DefectPlaces(kind, base) ==
    CASE kind = "none"             -> {0}
      [] kind = "missing_eos"      -> {k \in 1..Len(base) : base[k] = <<";">>}
      [] kind = "missing_rparen"   -> {k \in 1..Len(base) : base[k] = <<")">>}
      [] kind = "unmatched_rparen" -> {k \in 1..(Len(base) + 1) : Depth(base, k) = 0}

Defects == {"none", "missing_eos", "missing_rparen", "unmatched_rparen"}

WithDefect(kind, base, k) ==
    CASE kind = "none"             -> base
      [] kind = "missing_eos"      -> RemoveAt(base, k)
      [] kind = "missing_rparen"   -> RemoveAt(base, k)
      [] kind = "unmatched_rparen" -> InsertAt(base, k, <<")">>)

InStatement(ctx, e) ==
    IF ctx = "decl"
    THEN <<W_int, <<"a">>, <<"=">>>> \o e \o << <<";">> >>
    ELSE <<W_print, <<"(">>>> \o e \o << <<")">>, <<";">> >>

RECURSIVE Flatten(_)
Flatten(ss) == IF ss = <<>> THEN <<>> ELSE Head(ss) \o Flatten(Tail(ss))

\* The programs with a fixed token of a statement out of order: the places of
\* the fixed tokens (the keyword, the name and '=' of a declaration; the
\* keyword, '(' and ')' of a print), and the lexemes written there instead.
FixedTokenPlaces(base) ==
    {k \in 1..Len(base) :
        \/ base[k] \in {W_int, W_print, <<"=">>, <<"(">>, <<")">>}
        \/ k > 1 /\ base[k - 1] = W_int}

OrderLexemes == {W_float, W_print, <<"b">>, <<"1">>, <<"(">>, <<")">>, <<";">>, <<"=">>, <<"+">>}

\* The lexemes that do not fit the place k of base.
OutOfOrder(base, k) ==
    CASE base[k] \in {W_int, W_print} -> OrderLexemes \ {W_float, W_print}
      [] base[k] = <<"=">>             -> OrderLexemes \ {<<"=">>}
      [] base[k] = <<"(">>             -> OrderLexemes \ {<<"(">>}
      [] base[k] = <<")">>             -> OrderLexemes \ {<<")">>, <<"+">>}
      [] OTHER                         -> OrderLexemes \ {<<"b">>}

ReplaceAt(q, k, x) == [q EXCEPT ![k] = x]

SimpleStatements == {"decl", "print"}

\* The programs of the mutability tests: a declaration of `a` with or without
\* the 'mut' qualifier, a declaration of `b` or none, and a reassignment of
\* `a` (to a literal or to "(5 * b) / 3") or none.
W_mut == <<"m", "u", "t">>

MutPrograms ==
    {<<q, y[1], y[2]>> :
        q \in {"mut", "plain"},
        y \in {<<"none", "none">>, <<"none", "lit">>, <<"decl_b", "lit">>,
               <<"decl_b", "expr">>}}

MutLexemes(xs) ==
    (IF xs[1] = "mut" THEN <<W_mut>> ELSE <<>>)
      \o <<W_int, <<"a">>, <<"=">>, <<"1">>, <<";">>>>
      \o (IF xs[2] = "decl_b" THEN <<W_int, <<"b">>, <<"=">>, <<"2">>, <<";">>>> ELSE <<>>)
      \o (CASE xs[3] = "none" -> <<>>
            [] xs[3] = "lit"  -> <<<<"a">>, <<"=">>, <<"2">>, <<";">>>>
            [] xs[3] = "expr" -> <<<<"a">>, <<"=">>, <<"(">>, <<"5">>, <<"*">>, <<"b">>,
                                   <<")">>, <<"/">>, <<"3">>, <<";">>>>)

Input(form, ctx, ops, pre, xs, k) ==
    [form |-> form, ctx |-> ctx, ops |-> ops, pre |-> pre, xs |-> xs, k |-> k]

Inputs ==
    {Input("free", "", <<>>, <<>>, t, 0) : t \in FreeTexts}
    \cup {Input("infix", c, o, <<>>, x, 0) :
            c \in {"decl", "print"}, o \in InfixOps \X InfixOps, x \in OperandTriples}
    \cup {Input("prefix", "decl", <<o>>, p, x, k) :
            o \in InfixOps, p \in PrefixChains, x \in OperandPairs, k \in {1, 2, 3}}
    \cup {Input("paren", "decl", o, <<>>, x, k) :
            o \in InfixOps \X InfixOps, x \in SimpleTriples, k \in {1, 2, 3, 4}}
    \cup UNION {{Input("defect", "", <<d>>, <<>>, x, k) : k \in DefectPlaces(d, BaseProgram(x))} :
            d \in Defects, x \in Statements \X Statements \X Separators}
    \cup UNION {UNION {{Input("order", "", <<>>, <<w>>, x, k) :
                            w \in OutOfOrder(BaseProgram(x), k)} :
                        k \in FixedTokenPlaces(BaseProgram(x))} :
            x \in SimpleStatements \X SimpleStatements \X Separators}
    \cup {Input("mut", "", <<>>, <<>>, x, 0) : x \in MutPrograms}

\* The lexemes of a generated program.
Lexemes(in) ==
    LET X(i)  == OperandLexemes(in.xs[i])
        O(i)  == << OpLexeme(in.ops[i]) >>
        P     == [i \in 1..Len(in.pre) |-> PrefixLexeme(in.pre[i])]
        LP    == << <<"(">> >>
        RP    == << <<")">> >>
    IN  CASE in.form = "infix" ->
               InStatement(in.ctx, X(1) \o O(1) \o X(2) \o O(2) \o X(3))
          [] in.form = "prefix" /\ in.k = 1 ->
               InStatement(in.ctx, P \o X(1) \o O(1) \o X(2))
          [] in.form = "prefix" /\ in.k = 2 ->
               InStatement(in.ctx, X(1) \o O(1) \o P \o X(2))
          [] in.form = "prefix" /\ in.k = 3 ->
               InStatement(in.ctx, P \o X(1) \o O(1) \o << <<"+">> >> \o X(2))
          [] in.form = "paren" /\ in.k = 3 ->
               InStatement(in.ctx, LP \o LP \o X(1) \o O(1) \o X(2) \o RP \o RP
                                     \o O(2) \o X(3))
          [] in.form = "paren" /\ in.k = 4 ->
               InStatement(in.ctx, X(1) \o O(1) \o LP \o LP \o X(2) \o O(2) \o X(3)
                                     \o RP \o RP)
          [] in.form = "paren" /\ in.k = 1 ->
               InStatement(in.ctx, LP \o X(1) \o O(1) \o X(2) \o RP \o O(2) \o X(3))
          [] in.form = "paren" /\ in.k = 2 ->
               InStatement(in.ctx, X(1) \o O(1) \o LP \o X(2) \o O(2) \o X(3) \o RP)
          [] in.form = "defect" ->
               WithDefect(in.ops[1], BaseProgram(in.xs), in.k)
          [] in.form = "order" ->
               ReplaceAt(BaseProgram(in.xs), in.k, in.pre[1])
          [] in.form = "mut" -> MutLexemes(in.xs)

\* The first character of the j-th lexeme in the text, for j in 1..Len + 1
\* (the sentinel).
OffsetOf(lexemes, j) == 1 + Len(Flatten(SubSeq(lexemes, 1, j - 1))) + (j - 1)

TextOf(in) ==
    IF in.form = "free" THEN in.xs
    ELSE LET ls == Lexemes(in)
         IN  Flatten([i \in 1..Len(ls) |-> ls[i] \o <<" ">>]) \o <<NUL>>

Init ==
    /\ input \in Inputs
    /\ src = TextOf(input)
    /\ chars = src
    /\ cur_line = 1
    /\ cur_col = 1
    /\ tokens = <<>>
    /\ ptokens = <<>>
    /\ tree = <<>>
    /\ err = NoErr
    /\ pc = "tokenize"
    /\ ast = <<>>
    /\ symbol_table = <<>>
    /\ next_stmt = 1
    /\ prior = NoOutcome

Next ==
    \/ LexWhitespace
    \/ LexAlphanumeric
    \/ LexNumeric
    \/ LexBoolean
    \/ LexSingle
    \/ LexEOF
    \/ LexUnexpected
    \/ ParserNew
    \/ ParseStatement
    \/ ParseEnd
    \/ AnalyserNew
    \/ CheckStmt
    \/ CheckEnd

Spec == Init /\ [][Next]_vars

(***************************************************************************)
(* Trees handed to SemanticAnalyser::new directly.  Statement i carries    *)
(* the span (i, 1) and the nodes of its expression spans of line i, as the *)
(* parser would set them for a program of one statement per line.          *)
(***************************************************************************)
MaxChain == 3

MaxStmts == 2

NameA == <<"a">>

NameB == <<"b">>

Lit(primitive, sp) == LiteralExpr(<<"0">>, primitive, sp)

UnaryChains == UNION {[1..n -> UnaryOpKinds] : n \in 1..MaxChain}

\* The prefix operators pre[i..] applied to a literal of type t; pre[1] is the
\* outermost.
RECURSIVE UnaryChain(_, _, _)
UnaryChain(pre, t, i) ==
    IF i > Len(pre)
    THEN Lit(t, Span(1, 9 + Len(pre)))
    ELSE UnaryOpExpr(pre[i], UnaryChain(pre, t, i + 1), Span(1, 8 + i))

\* An expression of type t in statement i: a literal, or an operation on Int
\* literals ("0 + 0", "0 / 0", "0 == 0").
ExprOfType(kind, t, i) ==
    IF kind = "lit" THEN Lit(t, Span(i, 9))
    ELSE BinOpExpr(CASE t = "Int" -> "Add" [] t = "Float" -> "Div" [] t = "Bool" -> "Eq",
                   Lit("Int", Span(i, 9)), Lit("Int", Span(i, 13)), Span(i, 11))

NameStatements ==
    {"decl_a", "decl_b", "a_from_a", "a_from_b", "b_from_a", "print_a", "print_ab"}

NameStatement(st, i) ==
    CASE st = "decl_a"   -> StmtDeclare("Int", FALSE, NameA, Lit("Int", Span(i, 9)), Span(i, 1))
      [] st = "decl_b"   -> StmtDeclare("Int", FALSE, NameB, Lit("Int", Span(i, 9)), Span(i, 1))
      [] st = "a_from_a" ->
           StmtDeclare("Int", FALSE, NameA, IdentifierExpr(NameA, Span(i, 9)), Span(i, 1))
      [] st = "a_from_b" ->
           StmtDeclare("Int", FALSE, NameA, IdentifierExpr(NameB, Span(i, 9)), Span(i, 1))
      [] st = "b_from_a" ->
           StmtDeclare("Int", FALSE, NameB, IdentifierExpr(NameA, Span(i, 9)), Span(i, 1))
      [] st = "print_a"  -> PrintStmt(IdentifierExpr(NameA, Span(i, 7)), Span(i, 1))
      [] st = "print_ab" ->
           PrintStmt(BinOpExpr("Add", IdentifierExpr(NameA, Span(i, 7)),
                               IdentifierExpr(NameB, Span(i, 11)), Span(i, 9)),
                     Span(i, 1))

NamePrograms == UNION {[1..n -> NameStatements] : n \in 1..MaxStmts}

\* Statements on the name a: declarations that differ in type and mutability
\* ("bad_a" does not type-check), reassignments, a use, and a declaration of b.
MaxTable == 3

TableStatements ==
    {"mut_a", "int_a", "bool_a", "bad_a", "set_a", "set_a_b", "print_neg_a", "int_b"}

TableStatement(st, i) ==
    CASE st = "mut_a"  -> StmtDeclare("Int", TRUE, NameA, Lit("Int", Span(i, 13)), Span(i, 1))
      [] st = "int_a"  -> StmtDeclare("Int", FALSE, NameA, Lit("Int", Span(i, 9)), Span(i, 1))
      [] st = "bool_a" -> StmtDeclare("Bool", FALSE, NameA, Lit("Bool", Span(i, 10)), Span(i, 1))
      [] st = "bad_a"  -> StmtDeclare("Bool", TRUE, NameA, Lit("Int", Span(i, 14)), Span(i, 1))
      [] st = "set_a"  -> StmtMutAssign(NameA, Lit("Int", Span(i, 5)), Span(i, 1))
      [] st = "set_a_b" ->
           StmtMutAssign(NameA, IdentifierExpr(NameB, Span(i, 5)), Span(i, 1))
      [] st = "print_neg_a" ->
           PrintStmt(UnaryOpExpr("Neg", IdentifierExpr(NameA, Span(i, 8)), Span(i, 7)),
                     Span(i, 1))
      [] st = "int_b"  -> StmtDeclare("Int", FALSE, NameB, Lit("Int", Span(i, 9)), Span(i, 1))

TablePrograms == UNION {[1..n -> TableStatements] : n \in 1..MaxTable}

\* The expressions of a reassignment "a = e": a literal, an undeclared
\* identifier, an operation that does not type-check ("-true").
AssignedExprs == {"int", "bool", "undeclared_b", "ill_typed"}

AssignedExpr(e, i) ==
    CASE e = "int"  -> Lit("Int", Span(i, 5))
      [] e = "bool" -> Lit("Bool", Span(i, 5))
      [] e = "undeclared_b" -> IdentifierExpr(NameB, Span(i, 5))
      [] e = "ill_typed" -> UnaryOpExpr("Neg", Lit("Bool", Span(i, 6)), Span(i, 5))

\* Statements whose outcome does not depend on the statements before them:
\* two declarations that type-check, a print and a declaration that do not.
FailFastStatements == {"ok_a", "ok_b", "bad_print", "bad_c"}

FailFastStatement(st, i) ==
    CASE st = "ok_a" -> StmtDeclare("Int", FALSE, NameA, Lit("Int", Span(i, 9)), Span(i, 1))
      [] st = "ok_b" -> StmtDeclare("Float", FALSE, NameB, Lit("Int", Span(i, 11)), Span(i, 1))
      [] st = "bad_print" ->
           PrintStmt(UnaryOpExpr("Neg", Lit("Bool", Span(i, 8)), Span(i, 7)), Span(i, 1))
      [] st = "bad_c" ->
           StmtDeclare("Bool", FALSE, <<"c">>, Lit("Int", Span(i, 10)), Span(i, 1))

FailFastPrograms == UNION {[1..n -> FailFastStatements] : n \in 1..MaxTable}

SemInputs ==
    {Input("binop", d, <<o>>, <<>>, x, 0) :
        d \in Primitives, o \in BinOpKinds, x \in Primitives \X Primitives}
    \cup {Input("assign", c, <<>>, <<e>>, x, k) :
            c \in {"Declare", "MutAssign"}, e \in {"lit", "expr"},
            x \in Primitives \X Primitives, k \in {0, 1}}
    \cup {Input("unary", d, <<>>, p, <<t>>, 0) :
            d \in Primitives, p \in UnaryChains, t \in Primitives}
    \cup {Input("names", "", <<>>, <<>>, x, 0) : x \in NamePrograms}
    \cup {Input("table", "", <<>>, <<>>, x, 0) : x \in TablePrograms}
    \cup {Input("mutassign", c, <<>>, <<e>>, <<t>>, 0) :
            c \in {"undeclared", "immutable", "mutable"}, e \in AssignedExprs,
            t \in Primitives}
    \cup {Input("failfast", "", <<>>, <<>>, x, 0) : x \in FailFastPrograms}

AstOf(in) ==
    CASE in.form = "binop" ->
           << StmtDeclare(in.ctx, FALSE, NameA,
                          BinOpExpr(in.ops[1], Lit(in.xs[1], Span(1, 9)),
                                    Lit(in.xs[2], Span(1, 13)), Span(1, 11)),
                          Span(1, 1)) >>
      [] in.form = "assign" /\ in.ctx = "Declare" ->
           << StmtDeclare(in.xs[1], in.k = 1, NameA,
                          ExprOfType(in.pre[1], in.xs[2], 1), Span(1, 1)) >>
      [] in.form = "assign" /\ in.ctx = "MutAssign" ->
           << StmtDeclare(in.xs[1], in.k = 1, NameA, Lit(in.xs[1], Span(1, 9)),
                          Span(1, 1)),
              StmtMutAssign(NameA, ExprOfType(in.pre[1], in.xs[2], 2), Span(2, 1)) >>
      [] in.form = "unary" ->
           << StmtDeclare(in.ctx, FALSE, NameA, UnaryChain(in.pre, in.xs[1], 1),
                          Span(1, 1)) >>
      [] in.form = "names" ->
           [i \in 1..Len(in.xs) |-> NameStatement(in.xs[i], i)]
      [] in.form = "table" ->
           [i \in 1..Len(in.xs) |-> TableStatement(in.xs[i], i)]
      [] in.form = "mutassign" /\ in.ctx = "undeclared" ->
           << StmtMutAssign(NameA, AssignedExpr(in.pre[1], 1), Span(1, 1)) >>
      [] in.form = "mutassign" /\ in.ctx # "undeclared" ->
           << StmtDeclare(in.xs[1], in.ctx = "mutable", NameA, Lit(in.xs[1], Span(1, 9)),
                          Span(1, 1)),
              StmtMutAssign(NameA, AssignedExpr(in.pre[1], 2), Span(2, 1)) >>
      [] in.form = "failfast" ->
           [i \in 1..Len(in.xs) |-> FailFastStatement(in.xs[i], i)]

\* The state after SemanticAnalyser::new(ast).
SemInit ==
    /\ input \in SemInputs
    /\ src = <<>>
    /\ chars = <<>>
    /\ cur_line = 1
    /\ cur_col = 1
    /\ tokens = <<>>
    /\ ptokens = <<>>
    /\ tree = <<>>
    /\ err = NoErr
    /\ pc = "check"
    /\ ast = AstOf(input)
    /\ symbol_table = <<>>
    /\ next_stmt = 1
    /\ prior = NoOutcome

SemNext ==
    \/ CheckStmt
    \/ CheckEnd
    \/ Recheck
    \/ AnalyseAgain

SpecSem == SemInit /\ [][SemNext]_vars

(***************************************************************************)
(* The parser on token sequences handed to Parser::new directly: any       *)
(* sequence of up to MaxTokens tokens, after nothing or after the tokens   *)
(* of one whole statement.  The sequences need not end in an EOF token and *)
(* may hold one anywhere.  The span of the i-th token is (1, i).           *)
(***************************************************************************)
MaxTokens == 3

TokenNames == {"int", "print", "a", "1", "=", "+", "(", ")", ";", "EOF"}

TokenOf(name, sp) ==
    CASE name = "int"   -> Token("Declare", "Int", <<>>, sp)
      [] name = "print" -> Token("Print", "", <<>>, sp)
      [] name = "a"     -> Token("Identifier", "", <<"a">>, sp)
      [] name = "1"     -> Token("Literal", "Int", <<"1">>, sp)
      [] name = "="     -> Token("BinOp", "Assign", <<>>, sp)
      [] name = "+"     -> Token("BinOp", "Add", <<>>, sp)
      [] name = "("     -> Token("LParen", "", <<>>, sp)
      [] name = ")"     -> Token("RParen", "", <<>>, sp)
      [] name = ";"     -> Token("EOS", "", <<>>, sp)
      [] name = "EOF"   -> Token("EOF", "", <<>>, sp)

WholeStatement == <<"int", "a", "=", "1", ";">>

TokenInputs ==
    {Input("tokens", "", <<>>, p, t, 0) :
       p \in {<<>>, WholeStatement},
       t \in UNION {[1..n -> TokenNames] : n \in 0..MaxTokens}}

TokensOf(in) ==
    LET names == in.pre \o in.xs
    IN  [i \in 1..Len(names) |-> TokenOf(names[i], Span(1, i))]

\* The state before Parser::new(tokens).
ParseInit ==
    /\ input \in TokenInputs
    /\ src = <<>>
    /\ chars = <<>>
    /\ cur_line = 1
    /\ cur_col = 1
    /\ tokens = TokensOf(input)
    /\ ptokens = <<>>
    /\ tree = <<>>
    /\ err = NoErr
    /\ pc = "tokenized"
    /\ ast = <<>>
    /\ symbol_table = <<>>
    /\ next_stmt = 1
    /\ prior = NoOutcome

ParseNext ==
    \/ ParserNew
    \/ ParseStatement
    \/ ParseEnd

\* Parser::parse is a sequential loop: an iteration that can run does run.
SpecParse == ParseInit /\ [][ParseNext]_vars /\ WF_vars(ParseNext)

(***************************************************************************)
(* The lexer on character sequences handed to Lexer::new directly: up to   *)
(* MaxLen characters, the last one any character of FreeChars, with or     *)
(* without the sentinel.                                                   *)
(***************************************************************************)
LexChars == {" ", "a", "1", "#", NUL, ";", "=", "&"}

LexTexts ==
    {t \o l : t \in UNION {[1..n -> LexChars] : n \in 0..(MaxLen - 1)},
              l \in {<<>>} \cup {<<c>> : c \in FreeChars}}

LexInit ==
    /\ input \in {Input("free", "", <<>>, <<>>, t, 0) : t \in LexTexts}
    /\ src = TextOf(input)
    /\ chars = src
    /\ cur_line = 1
    /\ cur_col = 1
    /\ tokens = <<>>
    /\ ptokens = <<>>
    /\ tree = <<>>
    /\ err = NoErr
    /\ pc = "tokenize"
    /\ ast = <<>>
    /\ symbol_table = <<>>
    /\ next_stmt = 1
    /\ prior = NoOutcome

LexNext ==
    \/ LexWhitespace
    \/ LexAlphanumeric
    \/ LexNumeric
    \/ LexBoolean
    \/ LexSingle
    \/ LexEOF
    \/ LexUnexpected

\* Lexer::tokenize is a sequential loop: an iteration that can run does run.
SpecLex == LexInit /\ [][LexNext]_vars /\ WF_vars(LexNext)

(***************************************************************************)
(* The pipeline of the parser tests on two spellings of one program: the   *)
(* lexemes of the program separated by one space each, then the same       *)
(* lexemes with other whitespace between them.  A gap is any string of up  *)
(* to MaxGap whitespace characters; the empty one is used only where the   *)
(* two lexemes around it do not scan as one.                               *)
(***************************************************************************)
MaxGap == 2

GapChars == {" ", "\t", "\n"}

Gaps == UNION {[1..n -> GapChars] : n \in 0..MaxGap}

\* The lexemes `l` and `r`, written with nothing between them, are scanned
\* by one arm of tokenize as one lexeme.
Joins(l, r) ==
    \/ l[1] \in Alphabetic /\ r[1] \in Alphanumeric \cup {"_"}
    \/ l[1] \in Numeric \cup {"."} /\ r[1] \in Numeric \cup {"."}
    \/ l \in {<<"=">>, <<"<">>, <<">">>, <<"!">>} /\ r[1] = "="
    \/ l = <<"&">> /\ r[1] = "&"
    \/ l = <<"|">> /\ r[1] = "|"

CitedPrograms ==
    { << <<"b", "o", "o", "l">>, <<"a">>, <<"=">>, W_true, <<"|", "|">>, <<"b">>,
         <<">", "=">>, <<"4">>, <<"&", "&">>, <<"c">>, <<"=", "=">>, <<"d">>,
         <<"!", "=">>, <<"e">>, <<";">> >>,
      << W_float, <<"c">>, <<"=">>, <<"(">>, <<"(">>, <<"1">>, <<"+">>, <<"a">>,
         <<")">>, <<"*">>, <<"b">>, <<")">>, <<"/">>, <<"(">>, <<"a">>, <<"-">>,
         <<"b">>, <<")">>, <<";">> >>,
      << W_int, <<"a">>, <<"=">>, <<"1">>, <<"#">>, <<";">> >> }

SpacedInputs ==
    {Input("cited", "", <<>>, <<>>, x, 0) : x \in CitedPrograms}
    \cup {Input("infix", c, o, <<>>, x, 0) :
            c \in {"decl", "print"},
            o \in {<<"Add", "Mult">>, <<"Ge", "And">>, <<"Eq", "Ne">>, <<"Lt", "Sub">>},
            x \in {<<"id", "lit", "flt">>, <<"bool", "id", "lit">>}}

SpacedLexemes(in) == IF in.form = "cited" THEN in.xs ELSE Lexemes(in)

SpacedText(ls, gap) == Flatten([i \in 1..Len(ls) |-> ls[i] \o gap[i]]) \o <<NUL>>

\* The gaps of a spelling: one gap, or every gap, holds the string `w`.
Spellings(ls) ==
    LET n == Len(ls)
        Sep(i, w) == IF w = <<>> /\ i < n /\ Joins(ls[i], ls[i + 1]) THEN <<" ">> ELSE w
    IN  {[i \in 1..n |-> IF i = k THEN Sep(i, w) ELSE <<" ">>] : k \in 1..n, w \in Gaps}
        \cup {[i \in 1..n |-> Sep(i, w)] : w \in Gaps}

SpaceInit ==
    /\ input \in SpacedInputs
    /\ src = SpacedText(SpacedLexemes(input), [i \in 1..Len(SpacedLexemes(input)) |-> <<" ">>])
    /\ chars = src
    /\ cur_line = 1
    /\ cur_col = 1
    /\ tokens = <<>>
    /\ ptokens = <<>>
    /\ tree = <<>>
    /\ err = NoErr
    /\ pc = "tokenize"
    /\ ast = <<>>
    /\ symbol_table = <<>>
    /\ next_stmt = 1
    /\ prior = NoOutcome

\* The pipeline is run again, with a new lexer and parser, on another
\* spelling of the program; what the first run gave is kept aside.
Respace ==
    /\ pc \in {"lex_err", "parse_err", "parsed"}
    /\ prior = NoOutcome
    /\ prior' = [call |-> "respaced", pc |-> pc, err |-> err, tokens |-> tokens,
                 tree |-> tree]
    /\ \E gap \in Spellings(SpacedLexemes(input)) :
          src' = SpacedText(SpacedLexemes(input), gap)
    /\ chars' = src'
    /\ cur_line' = 1
    /\ cur_col' = 1
    /\ tokens' = <<>>
    /\ ptokens' = <<>>
    /\ tree' = <<>>
    /\ err' = NoErr
    /\ pc' = "tokenize"
    /\ UNCHANGED <<input, ast, symbol_table, next_stmt>>

SpaceNext ==
    \/ LexWhitespace
    \/ LexAlphanumeric
    \/ LexNumeric
    \/ LexBoolean
    \/ LexSingle
    \/ LexEOF
    \/ LexUnexpected
    \/ ParserNew
    \/ ParseStatement
    \/ ParseEnd
    \/ Respace

SpecSpace == SpaceInit /\ [][SpaceNext]_vars

(***************************************************************************)
(* Positions in a program text, counted from the text alone.               *)
(***************************************************************************)
Max(S) == CHOOSE m \in S : \A n \in S : n <= m

Min(S) == CHOOSE m \in S : \A n \in S : m <= n

\* The (line, col) of the k-th character of s, for k in 1..Len(s)+1.
PosOf(s, k) ==
    LET nl == {i \in 1..(k - 1) : s[i] = "\n"}
    IN  Span(1 + Cardinality(nl), k - Max(nl \cup {0}))

SpanLeq(a, b) == a.line < b.line \/ (a.line = b.line /\ a.col <= b.col)

\* The characters a token of the lexer is written with.
TokenText(t) ==
    CASE t.kind = "Declare" /\ t.sub = "Int"   -> <<"i", "n", "t">>
      [] t.kind = "Declare" /\ t.sub = "Float" -> <<"f", "l", "o", "a", "t">>
      [] t.kind = "Declare" /\ t.sub = "Bool"  -> <<"b", "o", "o", "l">>
      [] t.kind = "Print"                      -> <<"p", "r", "i", "n", "t">>
      [] t.kind \in {"Identifier", "Literal"}  -> t.val
      [] t.kind = "LParen"                     -> <<"(">>
      [] t.kind = "RParen"                     -> <<")">>
      [] t.kind = "EOS"                        -> <<";">>
      [] t.kind = "EOF"                        -> <<>>
      [] t.kind = "BinOp" ->
           CASE t.sub = "Assign" -> <<"=">>
             [] t.sub = "Add"    -> <<"+">>
             [] t.sub = "Sub"    -> <<"-">>
             [] t.sub = "Mult"   -> <<"*">>
             [] t.sub = "Div"    -> <<"/">>
             [] t.sub = "Gt"     -> <<">">>
             [] t.sub = "Lt"     -> <<"<">>
             [] t.sub = "Ge"     -> <<">", "=">>
             [] t.sub = "Le"     -> <<"<", "=">>
             [] t.sub = "Eq"     -> <<"=", "=">>
             [] t.sub = "Ne"     -> <<"!", "=">>
             [] t.sub = "And"    -> <<"&", "&">>
             [] t.sub = "Or"     -> <<"|", "|">>
             [] t.sub = "Not"    -> <<"!">>

TextAt(s, k, text) ==
    /\ k + Len(text) - 1 <= Len(s)
    /\ \A i \in 1..Len(text) : s[k + i - 1] = text[i]

LexOk == pc \notin {"tokenize", "lex_err"}

(***************************************************************************)
(* C1: whenever tokenize has returned Ok, the token list holds exactly one *)
(* EOF token and it is the last element; at no time does an EOF token      *)
(* precede another token.                                                  *)
(***************************************************************************)
C1_ExactlyOneTrailingEOF ==
    /\ \A i \in 1..(Len(tokens) - 1) : tokens[i].kind # "EOF"
    /\ LexOk => /\ Len(tokens) >= 1
                /\ tokens[Len(tokens)].kind = "EOF"

C1_Witness ==
    /\ pc = "tokenized"
    /\ Len(tokens) >= 2
    /\ \E i \in 1..Len(src) : src[i] = NUL /\ i < Len(src)

(***************************************************************************)
(* C2 as claimed: if the text has a character of no token class, tokenize  *)
(* ends in a SyntaxError whose span is the position of the first such      *)
(* character, and never in Ok.                                             *)
(***************************************************************************)
NoClass(ch) ==
    ch \notin Whitespace \cup Alphabetic \cup Numeric \cup {"."} \cup SingleChars
                \cup BooleanChars \cup {NUL}

NoClassAt(s) == {k \in 1..Len(s) : NoClass(s[k])}

C2_FirstNoClassCharReported ==
    (pc # "tokenize" /\ NoClassAt(src) # {}) =>
        /\ pc = "lex_err"
        /\ err.kind = "SyntaxError"
        /\ err.span = PosOf(src, Min(NoClassAt(src)))

(***************************************************************************)
(* C2 as amended: an '_' that continues an identifier belongs to the       *)
(* identifier; for the first other character of no token class, provided   *)
(* neither the sentinel nor a lone '&' or '|' stands before it, tokenize   *)
(* ends in a SyntaxError whose span is exactly that character's position.  *)
(***************************************************************************)
InIdentifier(s, k) ==
    /\ s[k] = "_"
    /\ \E j \in 1..(k - 1) :
          /\ s[j] \in Alphabetic
          /\ \A i \in j..(k - 1) : s[i] \in Alphanumeric \cup {"_"}

UnrecognisedAt(s) == {k \in 1..Len(s) : NoClass(s[k]) /\ ~InIdentifier(s, k)}

\* s[i] ends a run of an odd number of '&' (or of '|'): its last one stands alone.
LoneAt(s, i) ==
    /\ s[i] \in {"&", "|"}
    /\ (i = Len(s) \/ s[i + 1] # s[i])
    /\ (i - Max({j \in 1..(i - 1) : s[j] # s[i]} \cup {0})) % 2 = 1

StopsBefore(s, k) == \E i \in 1..(k - 1) : s[i] = NUL \/ LoneAt(s, i)

C2_Reaches == UnrecognisedAt(src) # {} /\ ~StopsBefore(src, Min(UnrecognisedAt(src)))

C2_UnrecognisedCharReported ==
    (pc # "tokenize" /\ C2_Reaches) =>
        /\ pc = "lex_err"
        /\ err.kind = "SyntaxError"
        /\ err.span = PosOf(src, Min(UnrecognisedAt(src)))

C2_Witness ==
    /\ C2_Reaches
    /\ pc = "lex_err"
    /\ Min(UnrecognisedAt(src)) > 1
    /\ err.span.line = 2
    /\ Len(tokens) >= 1

(***************************************************************************)
(* C3: every token carries the 1-based span of its first character, line = *)
(* 1 + newlines before it, col = 1 + characters since the last newline;    *)
(* the tokens stand in the text in order, separated by whitespace only, so *)
(* the spans are non-decreasing.                                           *)
(***************************************************************************)
\* The index of the character at span sp, 0 if the text has no such position:
\* the start of line sp.line is found first, and the position is then counted
\* again from the text.
IndexAt(s, sp) ==
    LET breaks == {0} \cup {i \in 1..Len(s) : s[i] = "\n"}
        base   == {b \in breaks : Cardinality({x \in breaks : x < b}) = sp.line - 1}
        k      == Min(base) + sp.col
    IN  IF base # {} /\ k \in 1..(Len(s) + 1) /\ PosOf(s, k) = sp THEN k ELSE 0

C3_SpansOfFirstCharacters ==
    pc \in {"tokenized", "lex_err"} =>
    \A i \in 1..Len(tokens) :
        LET t    == tokens[i]
            k    == IndexAt(src, t.span)
            from == IF i = 1 THEN 1
                    ELSE IndexAt(src, tokens[i - 1].span) + Len(TokenText(tokens[i - 1]))
        IN  /\ t.span.line >= 1 /\ t.span.col >= 1
            /\ k >= 1
            /\ TextAt(src, k, TokenText(t))
            /\ t.kind = "EOF" => (k = Len(src) + 1 \/ src[k] = NUL)
            /\ from <= k
            /\ \A j \in from..(k - 1) : src[j] \in Whitespace
            /\ i > 1 => SpanLeq(tokens[i - 1].span, t.span)

C3_Witness ==
    /\ pc = "tokenized"
    /\ input.form = "defect"
    /\ \E i \in 2..Len(tokens) : tokens[i].span.line = 2 /\ tokens[i].span.col > 2

(***************************************************************************)
(* C4: the compound-operator scan reads one character of lookahead: ==, <=,*)
(* >=, !=, && and || give Eq, Le, Ge, Ne, And, Or and consume both         *)
(* characters; a lone =, <, >, ! gives Assign, Lt, Gt, Not and consumes    *)
(* one; a lone & or | is a SyntaxError at the span of that character.      *)
(***************************************************************************)
C4_Table ==
    [c \in BooleanChars |->
        CASE c = "=" -> [second |-> "=", two |-> "Eq",  one |-> "Assign"]
          [] c = "<" -> [second |-> "=", two |-> "Le",  one |-> "Lt"]
          [] c = ">" -> [second |-> "=", two |-> "Ge",  one |-> "Gt"]
          [] c = "!" -> [second |-> "=", two |-> "Ne",  one |-> "Not"]
          [] c = "&" -> [second |-> "&", two |-> "And", one |-> "error"]
          [] c = "|" -> [second |-> "|", two |-> "Or",  one |-> "error"]]

C4_CompoundOperators ==
    [][(pc = "tokenize" /\ peek_next(chars) \in BooleanChars) =>
        LET row  == C4_Table[chars[1]]
            sp   == Span(cur_line, cur_col)
            look == IF Len(chars) >= 2 THEN chars[2] ELSE NUL
        IN  IF look = row.second
            THEN /\ tokens' = Append(tokens, Token("BinOp", row.two, <<>>, sp))
                 /\ chars' = SubSeq(chars, 3, Len(chars))
                 /\ pc' = "tokenize"
            ELSE IF row.one # "error"
            THEN /\ tokens' = Append(tokens, Token("BinOp", row.one, <<>>, sp))
                 /\ chars' = Tail(chars)
                 /\ pc' = "tokenize"
            ELSE /\ tokens' = tokens
                 /\ pc' = "lex_err"
                 /\ err'.kind = "SyntaxError"
                 /\ err'.span = sp]_vars

C4_Witness ==
    /\ pc = "tokenized"
    /\ Len(tokens) = 3
    /\ tokens[1].sub = "Le"
    /\ tokens[2].sub = "Assign"
    /\ tokens[2].span = Span(1, 3)

(***************************************************************************)
(* C5 as claimed: a numeric literal token is a maximal run of digits with  *)
(* at most one '.', its primitive is Float exactly when the lexeme has a   *)
(* '.', and its value is the raw lexeme.                                   *)
(***************************************************************************)
C5_NumericLiteralHasAtMostOneDot ==
    pc \in {"tokenized", "lex_err"} =>
    \A i \in 1..Len(tokens) :
        LET t == tokens[i]
            k == IndexAt(src, t.span)
        IN  (t.kind = "Literal" /\ t.sub \in {"Int", "Float"}) =>
              /\ Cardinality({j \in 1..Len(t.val) : t.val[j] = "."}) <= 1
              /\ \A j \in 1..Len(t.val) : t.val[j] \in Numeric \cup {"."}
              /\ (t.sub = "Float") <=> Contains(t.val, ".")
              /\ TextAt(src, k, t.val)

(***************************************************************************)
(* Syntax trees without spans (ignore_spans_ast of the tests), and the     *)
(* trees the claims name.                                                  *)
(***************************************************************************)
Z == Span(0, 0)

RECURSIVE StripExpr(_)
StripExpr(e) ==
    CASE e.node = "Literal"    -> LiteralExpr(e.value, e.primitive, Z)
      [] e.node = "Identifier" -> IdentifierExpr(e.name, Z)
      [] e.node = "UnaryOp"    -> UnaryOpExpr(e.op, StripExpr(e.expr), Z)
      [] e.node = "BinOp"      -> BinOpExpr(e.op, StripExpr(e.left), StripExpr(e.right), Z)

StripStmt(st) ==
    IF st.node = "Declare"
    THEN DeclareStmt(st.dtype, st.name, StripExpr(st.expr), Z)
    ELSE PrintStmt(StripExpr(st.expr), Z)

StripAst(t) == [i \in 1..Len(t) |-> StripStmt(t[i])]

OperandTree(x) ==
    CASE x = "lit"   -> LiteralExpr(<<"1">>, "Int", Z)
      [] x = "id"    -> IdentifierExpr(<<"b">>, Z)
      [] x = "flt"   -> LiteralExpr(<<"2", ".", "5">>, "Float", Z)
      [] x = "bool"  -> LiteralExpr(W_true, "Bool", Z)
      [] x = "neg"   -> UnaryOpExpr("Neg", IdentifierExpr(<<"b">>, Z), Z)
      [] x = "paren" -> BinOpExpr("Add", LiteralExpr(<<"1">>, "Int", Z),
                                  IdentifierExpr(<<"b">>, Z), Z)

B(op, l, r) == BinOpExpr(op, l, r, Z)

StatementTree(ctx, e) ==
    IF ctx = "decl" THEN DeclareStmt("Int", <<"a">>, e, Z) ELSE PrintStmt(e, Z)

\* The precedence bands of the specification, lowest first.
Band(op) ==
    CASE op = "Or"                       -> 1
      [] op = "And"                      -> 2
      [] op \in {"Eq", "Ne"}             -> 3
      [] op \in {"Gt", "Lt", "Ge", "Le"} -> 4
      [] op \in {"Add", "Sub"}           -> 5
      [] op \in {"Mult", "Div"}          -> 6

Ended == pc \in {"lex_err", "parse_err", "parsed"}

ParsedTo(e) == pc = "parsed" /\ StripAst(tree) = <<StatementTree(input.ctx, e)>>

X1 == OperandTree(input.xs[1])

X2 == OperandTree(input.xs[2])

X3 == OperandTree(input.xs[3])

(***************************************************************************)
(* C6: for operators hi, lo with hi in a strictly higher band than lo,     *)
(* 'x hi y lo z' parses to BinOp(lo, BinOp(hi, x, y), z) and 'x lo y hi z' *)
(* parses to BinOp(lo, x, BinOp(hi, y, z)).                                *)
(***************************************************************************)
C6_PrecedenceBands ==
    (input.form = "infix" /\ Ended /\ Band(input.ops[1]) # Band(input.ops[2])) =>
        IF Band(input.ops[1]) > Band(input.ops[2])
        THEN ParsedTo(B(input.ops[2], B(input.ops[1], X1, X2), X3))
        ELSE ParsedTo(B(input.ops[1], X1, B(input.ops[2], X2, X3)))

C6_Witness ==
    /\ input.form = "infix"
    /\ pc = "parsed"
    /\ input.ops = <<"Sub", "Div">>
    /\ input.xs = <<"paren", "bool", "id">>
    /\ tree[1].expr.right.op = "Div"

(***************************************************************************)
(* C7: operators of one band associate to the left: 'x p y q z' parses to  *)
(* BinOp(q, BinOp(p, x, y), z), the left binding power of q being below    *)
(* the right binding power of p.                                           *)
(***************************************************************************)
C7_LeftAssociative ==
    (input.form = "infix" /\ Ended /\ Band(input.ops[1]) = Band(input.ops[2])) =>
        /\ ParsedTo(B(input.ops[2], B(input.ops[1], X1, X2), X3))
        /\ airthmetic_binding_power(input.ops[2]).lbp
             < airthmetic_binding_power(input.ops[1]).rbp

C7_Witness ==
    /\ input.form = "infix"
    /\ pc = "parsed"
    /\ input.ops = <<"Eq", "Ne">>
    /\ tree[1].expr.op = "Ne"
    /\ tree[1].expr.left.op = "Eq"

(***************************************************************************)
(* C8: a prefix '-' or '!' wraps only the primary that follows it in       *)
(* UnaryOp(Neg) or UnaryOp(Not), a prefix '+' leaves no node: with a chain *)
(* of prefixes before one operand of 'x op y', the tree is BinOp(op, ., .) *)
(* with the chain wrapped around that operand alone.                       *)
(***************************************************************************)
RECURSIVE Prefixed(_, _)
Prefixed(chain, e) ==
    IF chain = <<>> THEN e
    ELSE IF Head(chain) = "Plus" THEN Prefixed(Tail(chain), e)
    ELSE UnaryOpExpr(Head(chain), Prefixed(Tail(chain), e), Z)

C8_PrefixBindsTightest ==
    (input.form = "prefix" /\ Ended) =>
        IF input.k = 2
        THEN ParsedTo(B(input.ops[1], X1, Prefixed(input.pre, X2)))
        ELSE ParsedTo(B(input.ops[1], Prefixed(input.pre, X1), X2))

C8_Witness ==
    /\ input.form = "prefix"
    /\ pc = "parsed"
    /\ input.k = 3
    /\ input.pre = <<"Neg">>
    /\ input.ops = <<"Mult">>
    /\ input.xs = <<"id", "paren">>
    /\ tree[1].expr.left.node = "UnaryOp"
    /\ tree[1].expr.right.node = "BinOp"

(***************************************************************************)
(* C9: a parenthesised sub-expression is one operand of the expression     *)
(* around it whatever operators it holds, and leaves no node of its own:   *)
(* '(x p y) q z' parses to BinOp(q, BinOp(p, x, y), z) and 'x p (y q z)'   *)
(* to BinOp(p, x, BinOp(q, y, z)), also with doubled parentheses.          *)
(***************************************************************************)
C9_ParenthesesGroup ==
    (input.form = "paren" /\ Ended) =>
        IF input.k \in {1, 3}
        THEN ParsedTo(B(input.ops[2], B(input.ops[1], X1, X2), X3))
        ELSE ParsedTo(B(input.ops[1], X1, B(input.ops[2], X2, X3)))

C9_Witness ==
    /\ input.form = "paren"
    /\ pc = "parsed"
    /\ input.k = 1
    /\ input.ops = <<"Add", "Mult">>
    /\ tree[1].expr.op = "Mult"
    /\ tree[1].expr.left.op = "Add"

(***************************************************************************)
(* C10: a program with a ';' left out, a ')' left out or a ')' put in      *)
(* where no '(' is open ends parse in a SyntaxError whose span is that of  *)
(* the first token that cannot continue the statement: the token after the *)
(* complete statement, the token found where ')' was required (the next    *)
(* ';'), the surplus ')' itself.                                           *)
(***************************************************************************)
\* The index of the offending lexeme; Len + 1 is the sentinel.
Offending(kind, q, k) ==
    CASE kind = "missing_eos" ->
           Min({j \in k..Len(q) : q[j] # <<"\n">>} \cup {Len(q) + 1})
      [] kind = "missing_rparen" -> Min({j \in k..Len(q) : q[j] = <<";">>})
      [] kind = "unmatched_rparen" -> k

C10_DefectSpan ==
    (input.form = "defect" /\ input.ops[1] # "none" /\ Ended) =>
        /\ pc = "parse_err"
        /\ err.kind = "SyntaxError"
        /\ err.span = PosOf(src, OffsetOf(Lexemes(input),
                                          Offending(input.ops[1], Lexemes(input), input.k)))

C10_Witness ==
    /\ input.form = "defect"
    /\ input.ops[1] = "missing_rparen"
    /\ input.xs = <<"decl", "nested", "newline">>
    /\ pc = "parse_err"
    /\ Len(tree) = 1
    /\ err.span.line = 2

(***************************************************************************)
(* C11: whenever a statement is not followed by EOS, the SyntaxError       *)
(* message is "Unmatched ')'." if the token in that position is RParen and *)
(* "Expected ';' at end of expression." for every other token in that      *)
(* position, a keyword, identifier or literal after a complete declaration *)
(* initializer included.  The programs are those with the ';' of a         *)
(* statement left out, or with a ')' written in its place.                 *)
(***************************************************************************)
C11_Applies ==
    /\ input.form = "defect"
    /\ \/ input.ops[1] = "missing_eos"
       \/ /\ input.ops[1] = "unmatched_rparen"
          /\ input.k <= Len(BaseProgram(input.xs))
          /\ BaseProgram(input.xs)[input.k] = <<";">>

C11_StatementEndMessage ==
    (C11_Applies /\ Ended) =>
        /\ pc = "parse_err"
        /\ err.kind = "SyntaxError"
        /\ err.message = IF input.ops[1] = "unmatched_rparen"
                         THEN "Unmatched ')'."
                         ELSE "Expected ';' at end of expression."

(***************************************************************************)
(* C12: parse_statement checks the fixed tokens of a statement in order    *)
(* (Declare, Identifier, Assign; Print, LParen, expression, RParen) and a  *)
(* statement starts with Declare or Print only; the first token out of     *)
(* order raises a SyntaxError whose span is that token's span, and no      *)
(* token after it is consumed: the parser is left with the tokens from     *)
(* that token on, or with those after it.                                  *)
(***************************************************************************)
\* The index of the token of the k-th lexeme: a newline makes no token.
C12_TokenIndex(q, k) == k - Cardinality({i \in 1..(k - 1) : q[i] = <<"\n">>})

C13_StatementCount(xs) ==
    1 + (IF xs[2] = "decl_b" THEN 1 ELSE 0) + (IF xs[3] = "none" THEN 0 ELSE 1)

C13_WholeStatementGrammar ==
    (input.form = "mut" /\ Ended) =>
        /\ pc = "parsed"
        /\ Len(tree) = C13_StatementCount(input.xs)
        /\ tree[1].node = "Declare"
        /\ tree[1].name = <<"a">>
        /\ mutable_of(tree[1]) = (input.xs[1] = "mut")
        /\ input.xs[3] # "none" =>
              /\ tree[Len(tree)].node = "MutAssign"
              /\ tree[Len(tree)].name = <<"a">>

(***************************************************************************)
(* C14: run through tokenize, parse and check, a program that declares     *)
(* "mut int a = 1;" and later reassigns a with a numeric expression        *)
(* succeeds, and a program that declares "int a = 1;" and later reassigns  *)
(* "a = 2;" fails with MutabilityError.                                    *)
(***************************************************************************)
Done == pc \in {"lex_err", "parse_err", "check_err", "checked"}

C14_MutabilityThroughPipeline ==
    (input.form = "mut" /\ input.xs[3] # "none" /\ Done) =>
        IF input.xs[1] = "mut"
        THEN pc = "checked"
        ELSE pc = "check_err" /\ err.kind = "MutabilityError"

(***************************************************************************)
(* The analyser's claims are checked on the trees of SemInputs.            *)
(***************************************************************************)
SemDone == pc \in {"checked", "check_err"}

NumericTypes == {"Int", "Float"}

\* T = E, or both numeric.
Compatible(T, E) == T = E \/ {T, E} \subseteq NumericTypes

\* The outcome of a declaration (or reassignment) of span sp with target type T
\* whose expression is inferred as E.
AssignedAs(T, E, sp) ==
    IF Compatible(T, E)
    THEN pc = "checked"
    ELSE pc = "check_err" /\ err = TypeDeclarationError(T, E, sp)

(***************************************************************************)
(* C15: infer_binop_type returns the listed result for every non-Assign    *)
(* operator and operand pair of the type table: Add/Sub/Mult on (Int, Int) *)
(* give Int; Div on (Int, Int) gives Float; Add/Sub/Mult/Div on numeric    *)
(* operands with at least one Float give Float; And/Or/Eq/Ne on (Bool,     *)
(* Bool) give Bool; Gt/Lt/Ge/Le/Eq/Ne on numeric operands give Bool.  The  *)
(* result is seen in the outcome of the declaration "D a = l op r".        *)
(***************************************************************************)
C15_Table(op, l, r) ==
    CASE op \in {"Add", "Sub", "Mult"} /\ l = "Int" /\ r = "Int" -> "Int"
      [] op = "Div" /\ l = "Int" /\ r = "Int" -> "Float"
      [] op \in {"Add", "Sub", "Mult", "Div"} /\ {l, r} \subseteq NumericTypes
           /\ "Float" \in {l, r} -> "Float"
      [] op \in {"And", "Or", "Eq", "Ne"} /\ l = "Bool" /\ r = "Bool" -> "Bool"
      [] op \in {"Gt", "Lt", "Ge", "Le", "Eq", "Ne"} /\ {l, r} \subseteq NumericTypes -> "Bool"
      [] OTHER -> "none"

C15_BinOpTypeTable ==
    (input.form = "binop" /\ SemDone) =>
        LET R == C15_Table(input.ops[1], input.xs[1], input.xs[2])
        IN  R # "none" =>
              /\ infer_binop_type(input.ops[1], input.xs[1], input.xs[2], Span(1, 11))
                   = TypeOk(R)
              /\ AssignedAs(input.ctx, R, Span(1, 1))

C15_Witness ==
    /\ input.form = "binop"
    /\ input.ops = <<"Mult">>
    /\ input.xs = <<"Int", "Float">>
    /\ input.ctx = "Bool"
    /\ pc = "check_err"
    /\ err.found = "Float"

(***************************************************************************)
(* C16: for every (op, left, right) over the 14 BinOpKind values and the 3 *)
(* primitives that no row of the type table lists, infer_binop_type        *)
(* returns TypeBinOpError{op, left, right, span}; every use of Not as a    *)
(* binary operator is among them.                                          *)
(***************************************************************************)
C16_Listed(op, l, r) ==
    \/ C15_Table(op, l, r) # "none"
    \/ op = "Assign" /\ Compatible(l, r)

C16_UnlistedRejected ==
    (input.form = "binop" /\ SemDone
       /\ ~C16_Listed(input.ops[1], input.xs[1], input.xs[2])) =>
        /\ pc = "check_err"
        /\ err = TypeBinOpError(input.ops[1], input.xs[1], input.xs[2], Span(1, 11))

(***************************************************************************)
(* C17: a Declare, and a MutAssign to a mutable name, with target type T   *)
(* and inferred expression type E succeeds iff T = E or both are numeric;  *)
(* otherwise it fails with TypeDeclarationError{expected: T, found: E}     *)
(* carrying the statement's span.                                          *)
(***************************************************************************)
C17_AssignmentCompatibility ==
    (input.form = "assign" /\ SemDone) =>
        /\ input.ctx = "Declare" =>
             AssignedAs(input.xs[1], input.xs[2], Span(1, 1))
        /\ (input.ctx = "MutAssign" /\ input.k = 1) =>
             AssignedAs(input.xs[1], input.xs[2], Span(2, 1))

C17_Witness ==
    /\ input.form = "assign"
    /\ input.ctx = "MutAssign"
    /\ input.k = 1
    /\ input.pre = <<"expr">>
    /\ input.xs = <<"Bool", "Float">>
    /\ pc = "check_err"
    /\ err.kind = "TypeDeclarationError"
    /\ DOMAIN symbol_table = {NameA}

(***************************************************************************)
(* C18, as claimed: the division of two Int infers Float, and declaring a  *)
(* variable of type int with such a division as initializer ("int a =      *)
(* 1/2;") fails with TypeDeclarationError{expected: Int, found: Float}.    *)
(***************************************************************************)
C18_Division ==
    /\ input.form = "binop"
    /\ input.ops = <<"Div">>
    /\ input.xs = <<"Int", "Int">>

C18_IntFromDivisionFails ==
    (C18_Division /\ input.ctx = "Int" /\ SemDone) =>
        /\ pc = "check_err"
        /\ err = TypeDeclarationError("Int", "Float", Span(1, 1))

(***************************************************************************)
(* C18, amended: the division of two Int infers Float; declaring a         *)
(* variable of type int or float with it succeeds (Int and Float are       *)
(* assignable to each other), and declaring a variable of type bool with   *)
(* it fails with TypeDeclarationError{expected: Bool, found: Float}.       *)
(***************************************************************************)
C18_IntDivisionInfersFloat ==
    (C18_Division /\ SemDone) =>
        IF input.ctx = "Bool"
        THEN pc = "check_err" /\ err = TypeDeclarationError("Bool", "Float", Span(1, 1))
        ELSE pc = "checked"

C18_Witness ==
    /\ C18_Division
    /\ input.ctx = "Int"
    /\ pc = "checked"
    /\ symbol_table[NameA].primitive = "Int"

(***************************************************************************)
(* C19: infer_unaryop_type returns the operand's own type for Neg on Int   *)
(* or Float, Bool for Not on Bool, and TypeUnaryOpError{op, operand, span} *)
(* for Neg on Bool, Not on Int and Not on Float; a chain of prefix         *)
(* operators type-checks iff every link does.  In "D a = p1 .. pn lit" a   *)
(* link is applied to the type of the literal, which the valid links keep; *)
(* the innermost link that does not fit is the one reported.               *)
(***************************************************************************)
C19_Fits(op, t) ==
    \/ op = "Neg" /\ t \in NumericTypes
    \/ op = "Not" /\ t = "Bool"

C19_UnaryChains ==
    (input.form = "unary" /\ SemDone) =>
        LET t   == input.xs[1]
            bad == {i \in 1..Len(input.pre) : ~C19_Fits(input.pre[i], t)}
        IN  IF bad = {}
            THEN AssignedAs(input.ctx, t, Span(1, 1))
            ELSE /\ pc = "check_err"
                 /\ err = TypeUnaryOpError(input.pre[Max(bad)], t, Span(1, 8 + Max(bad)))

C19_Witness ==
    /\ input.form = "unary"
    /\ input.pre = <<"Not", "Neg", "Not">>
    /\ input.xs = <<"Bool">>
    /\ pc = "check_err"
    /\ err.kind = "TypeUnaryOpError"
    /\ err.op = "Neg"

(***************************************************************************)
(* C20: no forward references: an identifier occurring in the expression   *)
(* of statement i that no Declare statement of index below i declares      *)
(* makes check fail with NameError carrying that name and the span of that *)
(* occurrence, an identifier in the initializer of its own first           *)
(* declaration included.  The occurrence is the first one in the order of  *)
(* the statements and, within an expression, from left to right.           *)
(***************************************************************************)
\* The identifier occurrences of an expression, from left to right.
RECURSIVE Ids(_)
Ids(e) ==
    CASE e.node = "Identifier" -> << [name |-> e.name, span |-> e.span] >>
      [] e.node = "BinOp"      -> Ids(e.left) \o Ids(e.right)
      [] e.node = "UnaryOp"    -> Ids(e.expr)
      [] OTHER                 -> <<>>

DeclaredBefore(i) == {ast[j].name : j \in {n \in 1..(i - 1) : ast[n].node = "Declare"}}

Undeclared(i) == SelectSeq(Ids(ast[i].expr), LAMBDA o : o.name \notin DeclaredBefore(i))

C20_NoForwardReferences ==
    (input.form = "names" /\ SemDone) =>
        LET S == {i \in 1..Len(ast) : Undeclared(i) # <<>>}
        IN  S # {} =>
              /\ pc = "check_err"
              /\ err = NameError(Head(Undeclared(Min(S))).name,
                                 Head(Undeclared(Min(S))).span)

(***************************************************************************)
(* C21: when a stage fails, no partial result is observable: after parse   *)
(* has returned Err the tree of the parser holds no statements, and after  *)
(* check has returned Err the symbol table of the analyser holds no        *)
(* entries.                                                                *)
(***************************************************************************)
C21_NoPartialResult ==
    /\ pc = "parse_err" => tree = <<>>
    /\ pc = "check_err" => DOMAIN symbol_table = {}

Analysed == 1..(IF pc = "check_err" THEN next_stmt ELSE next_stmt - 1)

DeclaresOf(n) == {j \in Analysed : ast[j].node = "Declare" /\ ast[j].name = n}

C23_LastDeclareWins ==
    (prior = NoOutcome /\ pc \in {"check", "check_err", "checked"}) =>
        /\ \A n \in DOMAIN symbol_table :
             /\ DeclaresOf(n) # {}
             /\ LET d == ast[Max(DeclaresOf(n))]
                IN  symbol_table[n] = Identifier(d.dtype, d.span, mutable_of(d))
        /\ (input.form = "table" /\ input.xs = <<"mut_a", "int_a", "set_a">> /\ SemDone) =>
             pc = "check_err" /\ err = MutabilityError(NameA, Span(3, 1))
        /\ (input.form = "table" /\ input.xs = <<"int_a", "bool_a", "print_neg_a">>
              /\ SemDone) =>
             pc = "check_err" /\ err = TypeUnaryOpError("Neg", "Bool", Span(3, 7))

C23_Witness ==
    /\ prior = NoOutcome
    /\ input.form = "table"
    /\ input.xs = <<"mut_a", "int_a", "set_a">>
    /\ pc = "check_err"
    /\ err.kind = "MutabilityError"
    /\ symbol_table[NameA].span = Span(2, 1)

(***************************************************************************)
(* C24: check_stmt on MutAssign{name, expr} checks in a fixed order:       *)
(* NameError if the name is not in the symbol table; otherwise             *)
(* MutabilityError if the entry is immutable, even when expr is ill-typed  *)
(* or mentions an undeclared identifier; otherwise the error of checking   *)
(* expr; otherwise TypeDeclarationError if the type of expr is not         *)
(* assignable to the declared type; otherwise Ok.                          *)
(***************************************************************************)
C24_MutAssignOrder ==
    (input.form = "mutassign" /\ SemDone) =>
        LET e  == input.pre[1]
            sp == Span(Len(ast), 1)
        IN  CASE input.ctx = "undeclared" ->
                   pc = "check_err" /\ err = NameError(NameA, sp)
              [] input.ctx = "immutable" ->
                   pc = "check_err" /\ err = MutabilityError(NameA, sp)
              [] input.ctx = "mutable" /\ e = "undeclared_b" ->
                   pc = "check_err" /\ err = NameError(NameB, Span(2, 5))
              [] input.ctx = "mutable" /\ e = "ill_typed" ->
                   pc = "check_err" /\ err = TypeUnaryOpError("Neg", "Bool", Span(2, 5))
              [] input.ctx = "mutable" /\ e = "int" -> AssignedAs(input.xs[1], "Int", sp)
              [] input.ctx = "mutable" /\ e = "bool" -> AssignedAs(input.xs[1], "Bool", sp)

C24_Witness ==
    /\ input.form = "mutassign"
    /\ input.ctx = "immutable"
    /\ input.pre = <<"ill_typed">>
    /\ pc = "check_err"
    /\ err.kind = "MutabilityError"
    /\ next_stmt = 2

(***************************************************************************)
(* C27: check analyses the statements from left to right and returns the   *)
(* error of the first statement that fails; no statement after it is       *)
(* analysed, so none adds or changes an entry of the symbol table and none *)
(* of their errors is reported.  The programs are made of statements whose *)
(* outcome does not depend on the statements before them.                  *)
(***************************************************************************)
C27_DeclaredUpTo(i) ==
    {NameA : j \in {n \in 1..i : input.xs[n] = "ok_a"}}
      \cup {NameB : j \in {n \in 1..i : input.xs[n] = "ok_b"}}
      \cup {<<"c">> : j \in {n \in 1..i : input.xs[n] = "bad_c"}}

C27_FailFast ==
    (input.form = "failfast" /\ SemDone) =>
        LET bad == {i \in 1..Len(input.xs) : input.xs[i] \in {"bad_print", "bad_c"}}
        IN  IF bad = {}
            THEN /\ pc = "checked"
                 /\ next_stmt = Len(ast) + 1
                 /\ DOMAIN symbol_table = C27_DeclaredUpTo(Len(ast))
            ELSE /\ pc = "check_err"
                 /\ next_stmt = Min(bad)
                 /\ err = IF input.xs[Min(bad)] = "bad_print"
                          THEN TypeUnaryOpError("Neg", "Bool", Span(Min(bad), 7))
                          ELSE TypeDeclarationError("Bool", "Int", Span(Min(bad), 1))
                 /\ DOMAIN symbol_table = C27_DeclaredUpTo(Min(bad))
                 /\ \A n \in DOMAIN symbol_table : symbol_table[n].span.line <= Min(bad)

C27_Witness ==
    /\ input.form = "failfast"
    /\ input.xs = <<"ok_a", "bad_c", "ok_b">>
    /\ pc = "check_err"
    /\ next_stmt = 2
    /\ DOMAIN symbol_table = {NameA, <<"c">>}

(***************************************************************************)
(* C29: only Declare changes the symbol table: analysing a Print or a      *)
(* MutAssign leaves it unchanged whether the statement succeeds or fails;  *)
(* a Declare adds its name; no entry is ever removed; and the key set is   *)
(* the set of the names of the Declare statements analysed so far.         *)
(***************************************************************************)
C29_Step ==
    (pc = "check" /\ pc' \in {"check", "check_err"}) =>
        /\ DOMAIN symbol_table \subseteq DOMAIN symbol_table'
        /\ ast[next_stmt].node # "Declare" => symbol_table' = symbol_table
        /\ ast[next_stmt].node = "Declare" =>
             DOMAIN symbol_table' = DOMAIN symbol_table \cup {ast[next_stmt].name}

C29_Keys ==
    (prior = NoOutcome /\ pc \in {"check", "check_err", "checked"}) =>
        DOMAIN symbol_table = {ast[j].name : j \in {n \in Analysed : ast[n].node = "Declare"}}

C29_OnlyDeclareChangesTable == [][C29_Step]_vars /\ []C29_Keys

C29_Witness ==
    /\ prior = NoOutcome
    /\ input.form = "table"
    /\ input.xs = <<"int_b", "mut_a", "set_a_b">>
    /\ pc = "checked"
    /\ DOMAIN symbol_table = {NameA, NameB}

(***************************************************************************)
(* C30: a second call of check on the same analyser, whose symbol table    *)
(* still holds the entries of the first call, returns the same outcome     *)
(* (Ok, or the same error at the same statement) and leaves a symbol table *)
(* equal to the one after the first call.                                  *)
(***************************************************************************)
C30_SecondCallAgrees ==
    (prior.call = "again" /\ SemDone) =>
        /\ pc = prior.pc
        /\ err = prior.err
        /\ next_stmt = prior.stmt
        /\ symbol_table = prior.table

C30_Witness ==
    /\ prior.call = "again"
    /\ input.form = "table"
    /\ input.xs = <<"mut_a", "set_a", "bad_a">>
    /\ pc = "check_err"
    /\ next_stmt = 3
    /\ symbol_table[NameA].primitive = "Bool"

(***************************************************************************)
(* C25: for every finite token sequence, truncated in the middle of a      *)
(* statement or lacking an EOF token included, Parser::parse terminates    *)
(* with Ok or a SyntaxError: reading past the end of the tokens gives an   *)
(* EOF token, an expression that needs an operand at the end of the input  *)
(* fails with SyntaxError "Unexpected token EOF", and every iteration of   *)
(* the statement loop consumes at least one token.                         *)
(***************************************************************************)
ParseDone == pc \in {"parsed", "parse_err"}

\* The token names end where an expression needs its operand: after the
\* start of a statement up to its expression, then prefix operators and
\* opening parentheses only.
C25_NeedsOperand(names) ==
    \E n \in 2..Len(names) :
       /\ SubSeq(names, 1, n) \in {<<"int", "a", "=">>, <<"print", "(">>}
       /\ \A i \in (n + 1)..Len(names) : names[i] \in {"+", "("}

C25_Step ==
    (pc = "parse" /\ pc' \in {"parse", "parse_err"}) => Len(ptokens') < Len(ptokens)

C25_Outcome ==
    /\ pc = "parse_err" => err.kind = "SyntaxError"
    /\ pc = "parsed" => err = NoErr /\ ppeek_next(ptokens).kind = "EOF"
    /\ (ParseDone /\ input.form = "tokens") =>
         LET xs == input.xs
         IN  /\ C25_NeedsOperand(xs) =>
                  /\ pc = "parse_err"
                  /\ err = SyntaxError("Unexpected token {:?}.", "EOF", Span(0, 0))
                  /\ ptokens = <<>>
             /\ (xs # <<>> /\ xs[Len(xs)] = "EOF"
                   /\ C25_NeedsOperand(SubSeq(xs, 1, Len(xs) - 1))) =>
                  /\ pc = "parse_err"
                  /\ err = SyntaxError("Unexpected token {:?}.", "EOF",
                                       Span(1, Len(tokens)))

C25_ParserTotal == <>ParseDone /\ [][C25_Step]_vars /\ []C25_Outcome

C25_Witness ==
    /\ input.form = "tokens"
    /\ input.pre = WholeStatement
    /\ input.xs = <<"print", "(", "+">>
    /\ pc = "parse_err"
    /\ Len(tree) = 1
    /\ err.arg = "EOF"

(***************************************************************************)
(* C26: for every finite character sequence, one without the sentinel or   *)
(* one that ends in the middle of a compound operator included, tokenize   *)
(* terminates with Ok and a trailing EOF token or with a SyntaxError: an    *)
(* exhausted input reads as the sentinel, and every iteration of the scan  *)
(* loop consumes at least one character or stops.                          *)
(***************************************************************************)
LexDone == pc \in {"tokenized", "lex_err"}

C26_Step ==
    pc = "tokenize" =>
        /\ Len(chars') < Len(chars) \/ pc' # "tokenize"
        /\ chars = <<>> =>
             /\ pc' = "tokenized"
             /\ tokens' = Append(tokens, Token("EOF", "", <<>>, Span(cur_line, cur_col)))

\* The text ends in one character of a compound operator, after characters
\* that neither join it nor end the scan.
C26_EndsInOperator ==
    /\ src # <<>>
    /\ src[Len(src)] \in BooleanChars
    /\ \A i \in 1..(Len(src) - 1) : src[i] \in {" ", "a", "1", ";"}

C26_Outcome ==
    /\ pc = "tokenized" =>
         /\ err = NoErr
         /\ tokens # <<>>
         /\ tokens[Len(tokens)].kind = "EOF"
    /\ pc = "lex_err" => err.kind = "SyntaxError"
    /\ (LexDone /\ C26_EndsInOperator) =>
         IF src[Len(src)] \in {"&", "|"}
         THEN pc = "lex_err" /\ err.span = Span(1, Len(src))
         ELSE /\ pc = "tokenized"
              /\ chars = <<>>
              /\ tokens[Len(tokens) - 1].kind = "BinOp"
              /\ tokens[Len(tokens)].span = Span(1, Len(src) + 1)

C26_LexerTotal == <>LexDone /\ [][C26_Step]_vars /\ []C26_Outcome

C26_Witness ==
    /\ src = <<"a", " ", "<">>
    /\ pc = "tokenized"
    /\ chars = <<>>
    /\ Len(tokens) = 3

(***************************************************************************)
(* C28: whitespace between tokens is insignificant: two sources that       *)
(* differ only in the whitespace (spaces, tabs, newlines) between tokens,  *)
(* where removing it does not join two adjacent tokens into one, tokenize  *)
(* to the same sequence of token kinds and parse to the same tree up to    *)
(* spans.                                                                  *)
(***************************************************************************)
TokenKinds(toks) == [i \in 1..Len(toks) |-> [toks[i] EXCEPT !.span = Z]]

C28_WhitespaceInsignificant ==
    (prior.call = "respaced" /\ Ended) =>
        /\ pc = prior.pc
        /\ TokenKinds(tokens) = TokenKinds(prior.tokens)
        /\ StripAst(tree) = StripAst(prior.tree)
        /\ err.kind = prior.err.kind
        /\ err.message = prior.err.message

C28_Witness ==
    /\ prior.call = "respaced"
    /\ input.form = "cited"
    /\ src = <<"f", "l", "o", "a", "t", " ", "c", "=", "(", "(", "1", "+", "a",
               ")", "*", "b", ")", "/", "(", "a", "-", "b", ")", ";", NUL>>
    /\ pc = "parsed"
    /\ Len(tree) = 1

====
